---- MODULE Spec2Model ----
(***************************************************************************)
(* State-machine model of the orchestration core of mobx-ui-statelets:     *)
(* Task (cancelable asynchronous unit of work), Validator, Input and Form. *)
(*                                                                         *)
(* JavaScript is single threaded: every method call below is one atomic    *)
(* step.  Asynchrony is modelled by separate steps for the settlement of   *)
(* a user action's promise and for the promise continuations the code      *)
(* registers with .then / await.                                           *)
(* User supplied functions (task actions, cancel handlers, predicates)     *)
(* return normally and do not call back into the object that runs them.    *)
(***************************************************************************)
EXTENDS Integers, Sequences, FiniteSets, TLC

\* ------------------------------------------------------------------ bounds
\* Number of invocations of one task that a behaviour may contain.
MaxInvokes == 2
\* Number of cancel handlers one invocation may register.
MaxHandlers == 2

\* ------------------------------------------------------------------ values
\* `void 0`
Unset == "unset"
\* `_invokeInstance = null`
NoInstance == 0
\* Results are tagged with the invocation that produced them, so that equal
\* values returned by two invocations stay distinguishable.
NoResult == [by |-> NoInstance, val |-> Unset]
\* `_promise`: null, Promise.resolve(), or the race promise of an invocation.
NullPromise == [k |-> "null", i |-> NoInstance]
ResolvedPromise == [k |-> "resolved", i |-> NoInstance]
RacePromise(i) == [k |-> "race", i |-> i]

\* Values a standalone task's action may produce.
ResultValues == {"r1"}
\* Values reported as progress.
ProgressValues == {"p1"}

\* ------------------------------------------------------------------ InvokeInstance
\* One InvokeInstance together with what is known of the action call it
\* belongs to:
\*   handlers  number of cancel handlers pushed to its Disposer
\*   ran       number of handler executions so far
\*   act       "none" (not created), "sync" (action returned a value),
\*             "pending" / "fulfilled" / "rejected" (state of the promise the
\*             action returned)
\*   val       the value the action produced
\*   race      first settlement seen by Promise.race([killerPromise, result]):
\*             "none", "killer", "action" (fulfilled) or "rejected"
\*   contDone  the .then continuation of the race has run
\*   via       how the instance was canceled: "none", "cancel", "invoke"
\*   arg       the argument the action was called with
NewInstance ==
  [isCanceled |-> FALSE, isSettled |-> FALSE, handlers |-> 0, ran |-> 0,
   act |-> "none", val |-> Unset, race |-> "none", contDone |-> FALSE,
   via |-> "none", arg |-> Unset]

HandlerEvent(i, h) == [e |-> "handler", i |-> i, h |-> h]
ActionEvent(i) == [e |-> "action", i |-> i, h |-> 0]

\* Disposer.dispose: every handler pushed so far runs, in order.
Dispose(i, handlers) == [h \in 1..handlers |-> HandlerEvent(i, h)]

\* Task state.  inst holds every InvokeInstance the task ever created, cur is
\* `_invokeInstance`, n the number of instances created, log the order in
\* which user functions (actions, cancel handlers) were entered.
NewTask ==
  [isPending |-> FALSE, result |-> NoResult, lastArg |-> Unset,
   progress |-> Unset, promise |-> NullPromise, cur |-> NoInstance, n |-> 0,
   inst |-> [i \in 1..MaxInvokes |-> NewInstance], log |-> <<>>]

\* InvokeInstance.cancel without the call of _disposer.dispose()
InstCancelNoDispose(t, i, how) ==
  LET x == t.inst[i] IN
  IF x.isCanceled THEN t
  ELSE IF x.isSettled THEN [t EXCEPT !.inst[i].isCanceled = TRUE,
                                     !.inst[i].via = how]
  ELSE [t EXCEPT !.inst[i].isCanceled = TRUE,
                 !.inst[i].via = how,
                 !.inst[i].race = IF x.race = "none" THEN "killer" ELSE x.race]

\* InvokeInstance.cancel
InstCancel(t, i, how) ==
  LET x == t.inst[i] IN
  IF x.isCanceled THEN t
  ELSE IF x.isSettled THEN [t EXCEPT !.inst[i].isCanceled = TRUE,
                                     !.inst[i].via = how]
  ELSE [t EXCEPT !.inst[i].isCanceled = TRUE,
                 !.inst[i].via = how,
                 !.inst[i].race = IF x.race = "none" THEN "killer" ELSE x.race,
                 !.inst[i].ran = x.ran + x.handlers,
                 !.log = t.log \o Dispose(i, x.handlers)]

\* InvokeInstance.settle followed by the assignments of Task._settle
TaskSettle(t, i, r) ==
  [t EXCEPT !.inst[i].isSettled = IF t.inst[i].isCanceled
                                    THEN t.inst[i].isSettled ELSE TRUE,
            !.isPending = FALSE,
            !.result = [by |-> i, val |-> r],
            !.promise = NullPromise,
            !.cur = NoInstance,
            !.progress = Unset]

\* A test that takes every action result for a promise
IsPromiseAlways(kind) == TRUE

\* The action returned a promise: `result instanceof Promise`.
IsPromise(kind) == kind = "async"

\* Task.invoke that cancels the previous invocation only after it has called
\* the action
TaskInvokeLateCancel(t, arg, kind, r, nh) ==
  LET j  == t.n + 1
      t1 == [t EXCEPT !.lastArg = arg,
                      !.cur = j,
                      !.n = j,
                      !.isPending = FALSE,
                      !.progress = Unset,
                      !.inst[j] = [NewInstance EXCEPT
                                     !.arg = arg,
                                     !.handlers = nh,
                                     !.act = IF kind = "async" THEN "pending"
                                                               ELSE "sync",
                                     !.val = IF kind = "async" THEN Unset
                                                               ELSE r],
                      !.log = Append(t.log, ActionEvent(j))]
      t2 == IF t.isPending THEN InstCancel(t1, t.cur, "invoke") ELSE t1
  IN IF IsPromise(kind)
       THEN [t2 EXCEPT !.isPending = TRUE, !.promise = RacePromise(j)]
       ELSE [TaskSettle(t2, j, r) EXCEPT !.promise = ResolvedPromise]

\* Task.invoke that leaves the pending invocation running
TaskInvokeNoCancel(t, arg, kind, r, nh) ==
  LET j  == t.n + 1
      t2 == [t EXCEPT !.lastArg = arg,
                      !.cur = j,
                      !.n = j,
                      !.isPending = FALSE,
                      !.progress = Unset,
                      !.inst[j] = [NewInstance EXCEPT
                                     !.arg = arg,
                                     !.handlers = nh,
                                     !.act = IF kind = "async" THEN "pending"
                                                               ELSE "sync",
                                     !.val = IF kind = "async" THEN Unset
                                                               ELSE r],
                      !.log = Append(t.log, ActionEvent(j))]
  IN IF IsPromise(kind)
       THEN [t2 EXCEPT !.isPending = TRUE, !.promise = RacePromise(j)]
       ELSE [TaskSettle(t2, j, r) EXCEPT !.promise = ResolvedPromise]

\* Task.invoke(args) where the action registers nh cancel handlers before it
\* returns, and returns either the value r (kind "sync") or a promise
\* (kind "async").
TaskInvoke(t, arg, kind, r, nh) ==
  LET t1 == IF t.isPending THEN InstCancel(t, t.cur, "invoke") ELSE t
      j  == t.n + 1
      t2 == [t1 EXCEPT !.lastArg = arg,
                       !.cur = j,
                       !.n = j,
                       !.isPending = FALSE,
                       !.progress = Unset,
                       !.inst[j] = [NewInstance EXCEPT
                                      !.arg = arg,
                                      !.handlers = nh,
                                      !.act = IF kind = "async" THEN "pending"
                                                                ELSE "sync",
                                      !.val = IF kind = "async" THEN Unset
                                                                ELSE r],
                       !.log = Append(t1.log, ActionEvent(j))]
  IN IF IsPromise(kind)
       THEN [t2 EXCEPT !.isPending = TRUE, !.promise = RacePromise(j)]
       ELSE [TaskSettle(t2, j, r) EXCEPT !.promise = ResolvedPromise]

\* The continuation's test without `|| invokeInstance.isCanceled`
ContinuationSeesKillerOnly(x) == x.race = "killer"

\* `result === $canceled || invokeInstance.isCanceled` in the continuation
ContinuationSeesCancel(x) == x.race = "killer" \/ x.isCanceled

\* The continuation registered on the race promise of instance i.
TaskContinue(t, i) ==
  LET x  == t.inst[i]
      t1 == [t EXCEPT !.inst[i].contDone = TRUE]
  IN IF ContinuationSeesCancel(x)
       THEN IF t.cur = i THEN [t1 EXCEPT !.isPending = FALSE] ELSE t1
       ELSE TaskSettle(t1, i, x.val)

\* The continuation is runnable once the race is fulfilled; a rejected race
\* never calls it (then() is given no rejection handler).
CanContinue(t, i) ==
  /\ t.inst[i].race \in {"killer", "action"}
  /\ ~t.inst[i].contDone

\* Task.cancel that also clears the pending flag itself
TaskCancelEager(t) ==
  IF t.cur # NoInstance
    THEN [InstCancel(t, t.cur, "cancel") EXCEPT !.isPending = FALSE]
    ELSE t

\* Task.cancel
TaskCancel(t) ==
  IF t.cur # NoInstance THEN InstCancel(t, t.cur, "cancel") ELSE t

\* The promise returned by the action of instance i fulfils with r.
ActionFulfil(t, i, r) ==
  [t EXCEPT !.inst[i].act = "fulfilled",
            !.inst[i].val = r,
            !.inst[i].race = IF t.inst[i].race = "none" THEN "action"
                                                       ELSE t.inst[i].race]

\* A core that catches the failure of the action and goes on as if the
\* promise had fulfilled
ActionRejectCaught(t, i) ==
  [t EXCEPT !.inst[i].act = "rejected",
            !.inst[i].race = IF t.inst[i].race = "none" THEN "action"
                                                       ELSE t.inst[i].race]

\* The promise returned by the action of instance i rejects.
ActionReject(t, i) ==
  [t EXCEPT !.inst[i].act = "rejected",
            !.inst[i].race = IF t.inst[i].race = "none" THEN "rejected"
                                                       ELSE t.inst[i].race]

\* helpers.onCancel(handler), called by the (still running) action of i.
AddCancelHandler(t, i) == [t EXCEPT !.inst[i].handlers = @ + 1]

\* helpers.reportProgress(p), called by the (still running) action of i.
ReportProgress(t, i, p) == IF t.cur = i THEN [t EXCEPT !.progress = p] ELSE t

\* ------------------------------------------------------------------ Input, Validator: configuration
\* Number of calls the user makes on inputs and validators in one behaviour.
MaxCalls == 3
\* Number of cancel handlers a validator's asynchronous domain action registers.
DomainHandlers == 1

\* Two inputs and a validator V constructed over both of them.
Inputs == {"A", "B"}
Validators == {"V"}
\* A third input C, on its own, with two validators of its own: P, and Q whose
\* `enabled` option makes it depend on the validity of P.
SoloInputs == {"C"}
SoloValidators == {"P", "Q"}
\* Validators in the order of their construction.
VOrder == <<"V", "P", "Q">>
\* InputGroup.flattedInputs of a validator.
FlattedInputs(v) == IF v \in SoloValidators THEN <<"C">> ELSE <<"A", "B">>
\* Values the user enters; "empty" is the value the validators' parse rule
\* rejects, "Y" the value the inputs' normalizer turns into "y".
Values == {"empty", "x", "Y"}
\* The defaultValue both inputs are constructed with.
DefaultValue == "x"
\* InputOptions.confirmCascade: confirming A confirms B with the same value;
\* B has no cascade.
NoInput == "none"
CascadeTarget(i) == IF i = "A" THEN "B" ELSE NoInput
CascadeValue(i, value) == value
\* ValidatorOptions.validateOnInput is not set.
ValidateOnInput(v) == FALSE
\* Results of a domain action: falsy, or a ValidationFailure.
DomainResults == {"ok", "err"}
\* What a domain action does when called: kind "sync" returns r, kind "async"
\* returns a promise.
DomainChoices == [kind : {"sync", "async"}, r : DomainResults]

\* InputOptions.normalizer of both inputs: it lower-cases the value.
Normalizer(value) == IF value = "Y" THEN "y" ELSE value

\* Input.normalizeValue when no normalizer is configured
NormalizeValueSkip(i, value) == value

\* Input.normalizeValue
NormalizeValue(i, value) == Normalizer(value)

\* deepEqual on the primitive values of the model
DeepEqual(a, b) == a = b

\* defaultShouldValidate; no revalidate option is configured.
Revalidate(i, value, oldValue) == ~DeepEqual(value, oldValue)

NewInput ==
  [value |-> DefaultValue, inputValue |-> Unset, isConfirmed |-> FALSE,
   confirmId |-> 0, validationId |-> 0]

\* The reactions created by Validator.validate that are not disposed yet:
\* live holds the invocations they were created for, `last` the value their
\* expression had when they last ran (every live reaction tracks the same
\* expression, so they agree on it).
NoWatch == [live |-> {}, last |-> FALSE]

\* A Validator: its `enabled` predicate reads the observable flag `enabled`;
\* nValidate counts the calls of validate().
NewValidator ==
  [hasEver |-> FALSE, enabled |-> TRUE, task |-> NewTask, watch |-> NoWatch,
   nValidate |-> 0]

\* ------------------------------------------------------------------ Input, Validator: getters
\* Input.inputValue
InputValue(x) == IF x.inputValue # Unset THEN x.inputValue ELSE x.value

\* Input.validators: the validators whose flattedInputs hold the input.
InputValidators(i) ==
  SelectSeq(VOrder, LAMBDA v :
    \E k \in 1..Len(FlattedInputs(v)) : FlattedInputs(v)[k] = i)

\* InputGroup.value of a validator: the confirmed values of its inputs.
GroupValue(w, v) ==
  [k \in 1..Len(FlattedInputs(v)) |-> w.inp[FlattedInputs(v)[k]].value]

\* Validator.parseResult.isError under the configured parse rule (every input
\* is required).
ParseIsError(w, v) ==
  \E k \in 1..Len(FlattedInputs(v)) : GroupValue(w, v)[k] = "empty"

\* ValidatorOptions.enabled: the predicate of Q reads an observable flag and
\* the state of P (P has validated and has no domain error); the predicates
\* of the other validators read an observable flag only.
EnabledOption(w, v) ==
  /\ w.val[v].enabled
  /\ v = "Q" => /\ w.val["P"].hasEver
                /\ ~w.val["P"].task.isPending
                /\ w.val["P"].task.result.val = "ok"

\* Validator.isEnabled
IsEnabled(w, v) == EnabledOption(w, v)

\* Validator.domainResult.isError
DomainIsError(w, v) == w.val[v].task.result.val = "err"

\* Validator.error: "parse", "domain" or "none" (null)
ValidatorError(w, v) ==
  IF ParseIsError(w, v) THEN "parse"
  ELSE IF DomainIsError(w, v) THEN "domain"
  ELSE "none"

\* Validator.isValidationPending
IsValidationPending(w, v) == w.val[v].task.isPending

\* Validator.hasUnconfirmedInput
HasUnconfirmedInput(w, v) ==
  \E k \in 1..Len(FlattedInputs(v)) : ~w.inp[FlattedInputs(v)[k]].isConfirmed

\* Validator.isConclusive that forgets the unconfirmed inputs
IsConclusiveNoInputs(w, v) ==
  /\ ~w.val[v].task.isPending
  /\ w.val[v].hasEver

\* Validator.isConclusive
IsConclusive(w, v) ==
  /\ ~w.val[v].task.isPending
  /\ w.val[v].hasEver
  /\ ~HasUnconfirmedInput(w, v)

\* Validator.isConclusivelyValid
IsConclusivelyValid(w, v) == IsConclusive(w, v) /\ ValidatorError(w, v) = "none"

\* Validator.isConclusivelyInvalid
IsConclusivelyInvalid(w, v) == IsConclusive(w, v) /\ ValidatorError(w, v) # "none"

\* The expression watched by the reaction of Validator.validate.
WatchExpr(w, v) == ParseIsError(w, v) \/ ~IsEnabled(w, v)

\* A promise is settled / rejected, given the task whose race it may be.
PromiseSettled(t, pr) ==
  IF pr.k = "race" THEN t.inst[pr.i].contDone ELSE TRUE
PromiseRejected(t, pr) ==
  IF pr.k = "race" THEN t.inst[pr.i].race = "rejected" ELSE FALSE

\* ------------------------------------------------------------------ Validator.validate
\* The world w is the record of all Input / Validator state; w.ok turns false
\* when a step would exceed a bound of the model, w.ret is the promise the
\* last call returned.
\* A validate() that invokes the domain task whatever the parse result
ValidatorValidateAlways(w, v, ch) ==
  LET x  == w.val[v]
      x1 == [x EXCEPT !.hasEver = TRUE, !.nValidate = @ + 1]
  IN IF x.task.n >= MaxInvokes
       THEN [w EXCEPT !.ok = FALSE]
     ELSE
       LET t == TaskInvoke(x.task, GroupValue(w, v), ch.kind, ch.r,
                           IF ch.kind = "async" THEN DomainHandlers ELSE 0)
       IN [w EXCEPT
             !.val[v] = [x1 EXCEPT
                           !.task = t,
                           !.watch = IF t.isPending
                                       THEN [live |-> x.watch.live \cup {t.n},
                                             last |-> WatchExpr(w, v)]
                                       ELSE x.watch],
             !.ret = t.promise]

\* Validator.validate() up to its first await; ch says what the domain action
\* does if it is called.  After a synchronous domain action the reaction is
\* disposed in the microtask that follows, before anything it watches can
\* change: it is not recorded.
ValidatorValidate(w, v, ch) ==
  LET x  == w.val[v]
      x1 == [x EXCEPT !.hasEver = TRUE, !.nValidate = @ + 1]
  IN IF ParseIsError(w, v)
       THEN [w EXCEPT !.val[v] = x1, !.ret = ResolvedPromise]
     ELSE IF x.task.n >= MaxInvokes
       THEN [w EXCEPT !.ok = FALSE]
     ELSE
       LET t == TaskInvoke(x.task, GroupValue(w, v), ch.kind, ch.r,
                           IF ch.kind = "async" THEN DomainHandlers ELSE 0)
       IN [w EXCEPT
             !.val[v] = [x1 EXCEPT
                           !.task = t,
                           !.watch = IF t.isPending
                                       THEN [live |-> x.watch.live \cup {t.n},
                                             last |-> WatchExpr(w, v)]
                                       ELSE x.watch],
             !.ret = t.promise]

\* The reactions run at the end of a step: a reaction whose expression changed
\* to true cancels the validator's task and disposes itself.
React(w) ==
  [w EXCEPT !.val = [v \in DOMAIN w.val |->
     LET x == w.val[v]
         e == WatchExpr(w, v)
     IN IF x.watch.live # {} /\ e # x.watch.last
          THEN IF e THEN [x EXCEPT !.task = TaskCancel(x.task),
                                   !.watch = NoWatch]
                    ELSE [x EXCEPT !.watch.last = e]
          ELSE x]]

\* The code after `await promise` in Validator.validate, for invocation i.
ValidatorResume(x, i) ==
  [x EXCEPT !.task = TaskContinue(x.task, i), !.watch.live = @ \ {i}]

\* ------------------------------------------------------------------ Input.validate
\* One call of Input.validate(filter) that has not returned: id is the
\* validationId it took, set its local Set of validators, wait[v] the promise
\* the callback of v awaits and res[v] the value that callback returns; off
\* records the validators that were disabled when the call started.
NewSweep(i, filter, id) ==
  [input |-> i, filter |-> filter, id |-> id, set |-> {}, off |-> {},
   wait |-> [v \in Validators \cup SoloValidators |-> ResolvedPromise],
   res |-> [v \in Validators \cup SoloValidators |-> FALSE]]

\* isCandidateValidator
IsCandidate(filter, v) ==
  \/ filter = "none"
  \/ filter = "input" /\ ValidateOnInput(v)
  \/ filter = "confirm" /\ ~ValidateOnInput(v)

\* A callback that validates a validator it has not validated yet, enabled
\* or not
SweepCallbackAlways(r, v, ch) ==
  LET w == r.w
      p == r.p
  IN IF IsValidationPending(w, v)
       THEN [w |-> w,
             p |-> [p EXCEPT !.wait[v] = w.val[v].task.promise,
                             !.res[v] = TRUE]]
     ELSE IF ~IsCandidate(p.filter, v)
       THEN [w |-> w,
             p |-> [p EXCEPT !.wait[v] = ResolvedPromise, !.res[v] = FALSE]]
     ELSE IF v \notin p.set
       THEN LET w1 == ValidatorValidate(w, v, ch)
            IN [w |-> w1,
                p |-> [p EXCEPT !.set = @ \cup {v},
                                !.wait[v] = w1.ret,
                                !.res[v] = TRUE]]
       ELSE [w |-> w,
             p |-> [p EXCEPT !.wait[v] = ResolvedPromise, !.res[v] = FALSE]]

\* The callback given to this.validators.map, up to its first await.
\* r is [w, p]: the world and the sweep.
SweepCallback(r, v, ch) ==
  LET w == r.w
      p == r.p
  IN IF IsValidationPending(w, v)
       THEN [w |-> w,
             p |-> [p EXCEPT !.wait[v] = w.val[v].task.promise,
                             !.res[v] = TRUE]]
     ELSE IF ~IsCandidate(p.filter, v)
       THEN [w |-> w,
             p |-> [p EXCEPT !.wait[v] = ResolvedPromise, !.res[v] = FALSE]]
     ELSE
       LET hasChanged == (v \in p.set) # IsEnabled(w, v)
       IN IF IsEnabled(w, v)
            THEN IF hasChanged
                   THEN LET w1 == ValidatorValidate(w, v, ch)
                        IN [w |-> w1,
                            p |-> [p EXCEPT !.set = @ \cup {v},
                                            !.wait[v] = w1.ret,
                                            !.res[v] = TRUE]]
                   ELSE [w |-> w,
                         p |-> [p EXCEPT !.wait[v] = ResolvedPromise,
                                         !.res[v] = FALSE]]
            ELSE [w |-> w,
                  p |-> [p EXCEPT !.set = @ \ {v},
                                  !.wait[v] = ResolvedPromise,
                                  !.res[v] = hasChanged]]

RECURSIVE SweepMap(_, _, _)
\* this.validators.map(callback): the callbacks run in order.
SweepMap(r, vs, ch) ==
  IF vs = <<>> THEN r
  ELSE SweepMap(SweepCallback(r, Head(vs), ch), Tail(vs), ch)

\* A turn of the loop that does not test validationId
SweepPassNoTest(w, p, ch) ==
  LET r == SweepMap([w |-> w, p |-> p], InputValidators(p.input), ch)
  IN [r.w EXCEPT !.sw = @ \cup {r.p}]

\* One turn of the while loop of Input.validate, up to the await of
\* Promise.all: a superseded call returns, otherwise the callbacks start.
SweepPass(w, p, ch) ==
  IF p.id # w.inp[p.input].validationId
    THEN w
    ELSE LET r == SweepMap([w |-> w, p |-> p], InputValidators(p.input), ch)
         IN [r.w EXCEPT !.sw = @ \cup {r.p}]

\* Input.validate(filter) up to its first await.
InputValidate(w, i, filter, ch) ==
  LET id == w.inp[i].validationId + 1
      w1 == [w EXCEPT !.inp[i].validationId = id]
      vs == InputValidators(i)
      off == {vs[k] : k \in {k \in 1..Len(vs) : ~IsEnabled(w, vs[k])}}
  IN SweepPass(w1, [NewSweep(i, filter, id) EXCEPT !.off = off], ch)

\* Promise.all of a sweep has settled / has rejected.
SweepSettled(w, p) ==
  \A v \in DOMAIN w.val : PromiseSettled(w.val[v].task, p.wait[v])
SweepRejected(w, p) ==
  \E v \in DOMAIN w.val : PromiseRejected(w.val[v].task, p.wait[v])

\* The code after the await of Promise.all: break, or the next turn.
SweepResume(w, p, ch) ==
  LET w1 == [w EXCEPT !.sw = @ \ {p}]
  IN IF \E v \in DOMAIN w.val : p.res[v]
       THEN SweepPass(w1, p, ch)
       ELSE w1

\* ------------------------------------------------------------------ Input.confirm
\* The inputs the form F is constructed over (its flattedInputs): A and B,
\* or C where C is the input that exists.
FormInputs(w) ==
  IF DOMAIN w.inp = SoloInputs THEN <<"C">> ELSE <<"A", "B">>
\* FormOptions.autoConfirm
AutoConfirm == TRUE

\* An isBeingSubmitted that never sees a submitting form
IsBeingSubmittedNever(w, i) == FALSE

\* Input.isBeingSubmitted; w.sub is Form.isSubmitting of the form F.
IsBeingSubmitted(w, i) ==
  /\ w.sub
  /\ \E k \in 1..Len(FormInputs(w)) : FormInputs(w)[k] = i

RECURSIVE StartSweeps(_, _, _, _)
\* inputsToValidate.map(input => input.validate("confirm"))
StartSweeps(w, is, filter, ch) ==
  IF is = <<>> THEN w
  ELSE StartSweeps(InputValidate(w, Head(is), filter, ch), Tail(is), filter, ch)

RECURSIVE InputConfirm(_, _, _, _, _)
\* An Input.confirm in which every call, nested or not, validates its own
\* input as soon as it has stored its value, before its cascade runs
InputConfirmEager(w, i, arg, isRoot, ch) ==
  LET x     == w.inp[i]
      cc    == w.cc + 1
      value == IF arg = Unset THEN InputValue(x) ELSE arg
      nv    == NormalizeValue(i, value)
      x2    == [x EXCEPT !.confirmId = cc, !.inputValue = Unset,
                         !.isConfirmed = TRUE, !.value = nv]
      w1    == [w EXCEPT !.cc = cc, !.inp[i] = x2]
      w2    == IF Revalidate(i, nv, x.value)
                 THEN InputValidate(w1, i, "confirm", ch) ELSE w1
      tgt   == CascadeTarget(i)
  IN IF IsBeingSubmitted(w, i) THEN w
     ELSE IF tgt # NoInput
       THEN InputConfirm(w2, tgt, CascadeValue(i, nv), FALSE, ch)
       ELSE w2

\* Input.confirm({value: arg}) up to its first await.  isRoot is
\* !confirmStack.length; w.cands is validationCandidates.
InputConfirm(w, i, arg, isRoot, ch) ==
  LET x     == w.inp[i]
      cc    == w.cc + 1
      value == IF arg = Unset THEN InputValue(x) ELSE arg
      nv    == NormalizeValue(i, value)
      x1    == [x EXCEPT !.confirmId = cc, !.inputValue = Unset]
      x2    == [x1 EXCEPT !.isConfirmed = TRUE, !.value = nv]
      w1    == [w EXCEPT !.cc = cc, !.inp[i] = x1]
      w2    == [w EXCEPT !.cc = cc,
                         !.inp[i] = x2,
                         !.cands = IF Revalidate(i, nv, x.value)
                                     THEN Append(@, i) ELSE @]
      tgt   == CascadeTarget(i)
      w3    == IF tgt # NoInput
                 THEN InputConfirm(w2, tgt, CascadeValue(i, nv), FALSE, ch)
                 ELSE w2
  IN IF IsBeingSubmitted(w, i) THEN w
     ELSE IF DeepEqual(value, x1.inputValue) /\ ~x.isConfirmed THEN w1
     ELSE IF ~isRoot THEN w3
     ELSE StartSweeps([w3 EXCEPT !.cands = <<>>], w3.cands, "confirm", ch)

\* Input.input(value)
InputInput(w, i, value, ch) ==
  IF IsBeingSubmitted(w, i) THEN w
  ELSE InputValidate([w EXCEPT !.inp[i].inputValue = value], i, "input", ch)

\* Input.reset({value: arg}), or Input.reset() when arg is Unset
InputReset(w, i, arg) ==
  [w EXCEPT !.inp[i].value = NormalizeValue(i, IF arg # Unset THEN arg ELSE @),
            !.inp[i].isConfirmed = FALSE]

\* ------------------------------------------------------------------ Form
\* One call of the function guardSubmit returns, the action of the form's
\* task: phase is "none" (not called), "tick" (at `await Promise.resolve()`),
\* "validating" (at `await Promise.all(...)`, wait[v] being the promise of
\* v.validate()), "action" (submitAction has been called) or "done"; errors
\* is the list of inputs it returned with the outcome "validation-error",
\* late tells that it returned them as late errors; calls counts its calls of
\* submitAction, arg is the value it passed and result what the action
\* returned.
NewGuard ==
  [phase |-> "none",
   wait |-> [v \in Validators \cup SoloValidators |-> ResolvedPromise],
   errors |-> <<>>, late |-> FALSE,
   calls |-> 0, arg |-> <<>>, result |-> Unset]

NewForm ==
  [task |-> NewTask, guard |-> [i \in 1..MaxInvokes |-> NewGuard]]

\* Form.unconfirmedInputs
UnconfirmedInputs(w) ==
  SelectSeq(FormInputs(w), LAMBDA i : ~w.inp[i].isConfirmed)

\* Form.inputsPendingValidation
InputsPendingValidation(w) ==
  SelectSeq(FormInputs(w), LAMBDA i :
    \E k \in 1..Len(InputValidators(i)) :
      IsValidationPending(w, InputValidators(i)[k]))

\* Form.inputErrors
InputErrors(w) ==
  SelectSeq(FormInputs(w), LAMBDA i :
    \E k \in 1..Len(InputValidators(i)) :
      ValidatorError(w, InputValidators(i)[k]) # "none")

RECURSIVE GetValidatorsFrom(_, _)
GetValidatorsFrom(is, acc) ==
  IF is = <<>> THEN acc
  ELSE GetValidatorsFrom(Tail(is),
         acc \o SelectSeq(InputValidators(Head(is)), LAMBDA v :
                  \A k \in 1..Len(acc) : acc[k] # v))

\* getValidators(inputs)
GetValidators(is) == GetValidatorsFrom(is, <<>>)

RECURSIVE MarkAsConfirmed(_, _)
\* inputs.forEach(input => input.markAsConfirmed())
MarkAsConfirmed(w, is) ==
  IF is = <<>> THEN w
  ELSE MarkAsConfirmed([w EXCEPT !.inp[Head(is)].isConfirmed = TRUE], Tail(is))

RECURSIVE ValidateEnabled(_, _, _)
\* validators.forEach(validator => validator.isEnabled && validator.validate())
ValidateEnabled(w, vs, ch) ==
  IF vs = <<>> THEN w
  ELSE ValidateEnabled(
         IF IsEnabled(w, Head(vs)) THEN ValidatorValidate(w, Head(vs), ch) ELSE w,
         Tail(vs), ch)

RECURSIVE ValidateAll(_, _, _)
\* validators.map(validator => validator.validate()); r is [w, wait], the
\* world and the promises returned so far.
ValidateAll(r, vs, ch) ==
  IF vs = <<>> THEN r
  ELSE LET w1 == ValidatorValidate(r.w, Head(vs), ch)
       IN ValidateAll([w |-> w1,
                       wait |-> [r.wait EXCEPT ![Head(vs)] = w1.ret]],
                      Tail(vs), ch)

\* guardSubmit up to `await Promise.resolve()`
GuardStart(w, ch) ==
  LET unconfirmedInputs == UnconfirmedInputs(w)
      w1 == IF AutoConfirm THEN MarkAsConfirmed(w, unconfirmedInputs) ELSE w
  IN ValidateEnabled(w1, GetValidators(unconfirmedInputs), ch)

\* A form value built from what the inputs show, staged input included
FormValueStaged(w) ==
  [k \in 1..Len(FormInputs(w)) |-> InputValue(w.inp[FormInputs(w)[k]])]

\* Form.value (InputGroup.value): the form is constructed over the array of
\* its inputs, and the value maps each input to its confirmed value.
FormValue(w) ==
  [k \in 1..Len(FormInputs(w)) |-> w.inp[FormInputs(w)[k]].value]

\* What the submit action returns (the value its promise fulfils with).
ActionResults == {"r1", "r2"}

\* A findAndFocusErrors(form) that never finds an error
FindErrorsNever(w) == FALSE

\* findAndFocusErrors(form) returns an error
FindErrors(w) == InputErrors(w) # <<>>

\* currentFocus after findAndFocusErrors(form) has found errors: the first
\* input with an error
FocusErrors(w) == Head(InputErrors(w))

\* currentFocus, being f, after the guard has blurred the focused input of
\* the form
BlurFormInput(w, f) ==
  IF \E k \in 1..Len(FormInputs(w)) : FormInputs(w)[k] = f THEN NoInput ELSE f

\* FormOptions.autoNext and FormOptions.autoSubmit
AutoNext == TRUE
AutoSubmit == TRUE

\* Form.nextInput
NextInput(w) ==
  LET is == InputErrors(w) \o UnconfirmedInputs(w)
  IN IF is = <<>> THEN NoInput ELSE Head(is)

\* Input.isValidated
IsValidated(w, i) ==
  \A k \in 1..Len(InputValidators(i)) :
    IsConclusivelyValid(w, InputValidators(i)[k])

\* `confirmId !== confirmCounter` in the continuation of confirm
IsStaleConfirm(confirmId, confirmCounter) == confirmId # confirmCounter

\* What the code of Input.confirm after `await Promise.all(...)` does for a
\* call made with next: true on input i under confirmId, when currentFocus
\* is f: "none", "focus" (the form's next input) or "submit".
Advance(w, i, confirmId, f) ==
  IF IsStaleConfirm(confirmId, w.cc) THEN "none"
  ELSE IF ~\E k \in 1..Len(FormInputs(w)) : FormInputs(w)[k] = i THEN "none"
  ELSE IF ~IsValidated(w, i) THEN "none"
  ELSE IF f # i THEN "none"
  ELSE IF NextInput(w) # NoInput
    THEN (IF AutoNext THEN "focus" ELSE "none")
    ELSE (IF AutoSubmit THEN "submit" ELSE "none")

\* The Input.validate() calls a root confirm awaits: one for each input its
\* cascade marked, identified by input and validationId.
AwaitedSweeps(w0, w) ==
  {[input |-> k, id |-> w.inp[k].validationId] :
     k \in {k \in DOMAIN w.inp :
              w.inp[k].validationId # w0.inp[k].validationId}}

\* Every enabled validator of the form's inputs is conclusively valid.
AllConclusivelyValid(w) ==
  \A k \in 1..Len(GetValidators(FormInputs(w))) :
    LET v == GetValidators(FormInputs(w))[k]
    IN IsEnabled(w, v) => IsConclusivelyValid(w, v)

\* ------------------------------------------------------------------ state
VARIABLES
  task,      \* a standalone Task driven directly by its user
  inp,       \* the Input objects
  vld,       \* the Validator objects, each with its private domain Task
  sweeps,    \* the Input.validate() calls that have not returned yet
  counters,  \* module-level confirmCounter, and the number of user calls made
  form,      \* the Form F with its submit Task and its running guards
  focus,     \* currentFocus: the focused input, or NoInput
  nexts,     \* the confirm({next: true}) calls waiting for their validation
  ghost      \* history of the behaviour, read only by the properties

tvars == <<task>>
vvars == <<inp, vld, sweeps, counters, form, focus, nexts, ghost>>
vars == <<task, inp, vld, sweeps, counters, form, focus, nexts, ghost>>

Instances == 1..MaxInvokes

\* The Input / Validator state as one record, as the operators take it.
World ==
  [inp |-> inp, val |-> vld, sw |-> sweeps, cc |-> counters.cc,
   sub |-> form.task.isPending, cands |-> <<>>, ok |-> TRUE,
   ret |-> NullPromise]

\* History kept for the properties:
\*   soleCascade  the only call made so far is one A.confirm() that changed
\*                the values of both A and B to values that parse
\*   stale        per validator, the invocations whose domain check was still
\*                running when a confirm() changed one of the validator's
\*                inputs to another value that parses
\*   blocked      confirm() or input() has been called on an input while the
\*                form was submitting
\*   supersededReturned, supersededFailed
\*                the promise of an Input.validate() call has fulfilled /
\*                rejected after a newer call on the same input
\*   staleNext    the continuation of a confirm({next: true}) has run after a
\*                newer confirm() took a confirmId, for an input that was
\*                validated and focused
NewGhost ==
  [soleCascade |-> FALSE, stale |-> [v \in Validators |-> {}],
   blocked |-> FALSE, staleNext |-> FALSE,
   supersededReturned |-> FALSE, supersededFailed |-> FALSE]

VInit ==
  /\ inp = [i \in Inputs |-> NewInput]
  /\ vld = [v \in Validators |-> NewValidator]
  /\ sweeps = {}
  /\ counters = [cc |-> 0, calls |-> 0]
  /\ form = NewForm
  /\ focus = NoInput
  /\ nexts = {}
  /\ ghost = NewGhost

\* The state after the construction of C, P and Q
SoloInit ==
  /\ task = NewTask
  /\ inp = [i \in SoloInputs |-> NewInput]
  /\ vld = [v \in SoloValidators |-> NewValidator]
  /\ sweeps = {}
  /\ counters = [cc |-> 0, calls |-> 0]
  /\ form = NewForm
  /\ focus = NoInput
  /\ nexts = {}
  /\ ghost = [NewGhost EXCEPT !.stale = [v \in SoloValidators |-> {}]]

\* ------------------------------------------------------------------ Task steps
Init == task = NewTask /\ VInit

\* task.invoke(arg)
Invoke ==
  /\ task.n < MaxInvokes
  /\ \E kind \in {"sync", "async"}, r \in ResultValues, nh \in 0..MaxHandlers :
       task' = TaskInvoke(task, "arg", kind, r, nh)
  /\ UNCHANGED vvars

\* task.cancel()
Cancel == task' = TaskCancel(task) /\ UNCHANGED vvars

\* the action's promise fulfils
Fulfil ==
  \E i \in Instances, r \in ResultValues :
    /\ task.inst[i].act = "pending"
    /\ task' = ActionFulfil(task, i, r)
    /\ UNCHANGED vvars

\* the action's promise rejects
Reject ==
  \E i \in Instances :
    /\ task.inst[i].act = "pending"
    /\ task' = ActionReject(task, i)
    /\ UNCHANGED vvars

\* the race continuation of an invocation runs
Continue ==
  \E i \in Instances :
    /\ CanContinue(task, i)
    /\ task' = TaskContinue(task, i)
    /\ UNCHANGED vvars

\* the running asynchronous action registers one more cancel handler
OnCancel ==
  \E i \in Instances :
    /\ task.inst[i].act = "pending"
    /\ task.inst[i].handlers < MaxHandlers
    /\ task' = AddCancelHandler(task, i)
    /\ UNCHANGED vvars

\* the running asynchronous action reports progress
Progress ==
  \E i \in Instances, p \in ProgressValues :
    /\ task.inst[i].act = "pending"
    /\ task' = ReportProgress(task, i, p)
    /\ UNCHANGED vvars

Next == Invoke \/ Cancel \/ Fulfil \/ Reject \/ Continue \/ OnCancel

Spec == Init /\ [][Next]_vars

\* The same task with progress reports of the running action.
NextProgress == Next \/ Progress

SpecProgress == Init /\ [][NextProgress]_vars

\* ------------------------------------------------------------------ Input / Validator steps
\* The state a step leaves behind: the reactions have run.  user says whether
\* the step is a call made by the user.
Commit(w, user, g) ==
  LET r == React(w) IN
  /\ w.ok
  /\ inp' = r.inp
  /\ vld' = r.val
  /\ sweeps' = r.sw
  /\ counters' = [cc |-> r.cc,
                  calls |-> counters.calls + (IF user THEN 1 ELSE 0)]
  /\ ghost' = g
  /\ UNCHANGED task

\* A step that leaves the form alone.
VCommit(w, user, g) ==
  Commit(w, user, g) /\ UNCHANGED <<form, focus, nexts>>

\* The invocations of v that a confirm() leading from World to w makes stale.
NewlyStale(w, v) ==
  LET t == vld[v].task IN
  IF /\ t.isPending
     /\ t.inst[t.cur].act = "pending"
     /\ ~t.inst[t.cur].isCanceled
     /\ ~ParseIsError(World, v)
     /\ ~ParseIsError(w, v)
     /\ GroupValue(w, v) # GroupValue(World, v)
    THEN {t.cur}
    ELSE {}

\* Promise.all in the guard of invocation i has settled / has rejected.
GuardSettled(i) ==
  \A v \in DOMAIN vld : PromiseSettled(vld[v].task, form.guard[i].wait[v])
GuardRejected(i) ==
  \E v \in DOMAIN vld : PromiseRejected(vld[v].task, form.guard[i].wait[v])

\* Promise.all in the confirm call c has fulfilled: every Input.validate() it
\* awaits has returned.
NextReady(c) ==
  \A k \in c.waits : ~\E p \in sweeps : p.input = k.input /\ p.id = k.id

\* Input.validate() has been called again on the input of the call p.
Superseded(p) == p.id # inp[p.input].validationId

\* A promise continuation registered by the code (with await or then) is ready
\* to run.  The microtask queue drains before the next event is handled:
\* the user's calls and the settlements of domain actions wait for it.
MicrotaskReady ==
  \/ \E p \in sweeps : SweepSettled(World, p)
  \/ \E p \in sweeps : SweepRejected(World, p)
  \/ \E v \in DOMAIN vld, i \in Instances : CanContinue(vld[v].task, i)
  \/ \E i \in Instances : CanContinue(form.task, i)
  \/ \E i \in Instances : form.guard[i].phase = "tick"
  \/ \E i \in Instances :
       /\ form.guard[i].phase = "validating"
       /\ \/ GuardSettled(i)
          \/ GuardRejected(i)
  \/ \E c \in nexts : NextReady(c)

\* The values a call may pass: a value, or nothing (Unset).
Args == Values \cup {Unset}

\* The call i.confirm({value: arg, next: next}), with no value when arg is
\* Unset, made from outside any confirm; ch is what a domain action does if
\* it is called.  A call made with next: true waits for its validation; every
\* call marks the waiting ones as followed by a newer confirm() call.
ConfirmCallNext(i, arg, next, ch) ==
  /\ counters.calls < MaxCalls
  /\ ~MicrotaskReady
  /\ LET w == InputConfirm(World, i, arg, TRUE, ch)
         marked == {[c EXCEPT !.newer = TRUE] : c \in nexts}
     IN /\ Commit(w, TRUE,
             [ghost EXCEPT
                !.soleCascade =
                   /\ counters.calls = 0
                   /\ i = "A"
                   /\ \A k \in DOMAIN inp : w.inp[k].value # inp[k].value
                   /\ \A v \in DOMAIN vld : ~ParseIsError(w, v),
                !.stale = [v \in DOMAIN vld |->
                             ghost.stale[v] \cup NewlyStale(w, v)],
                !.blocked = ghost.blocked \/ form.task.isPending])
        /\ nexts' = IF next /\ ~IsBeingSubmitted(World, i)
                      THEN marked \cup
                           {[input |-> i, confirmId |-> counters.cc + 1,
                             waits |-> AwaitedSweeps(World, w),
                             newer |-> FALSE]}
                      ELSE marked
        /\ UNCHANGED <<form, focus>>

\* The call i.confirm({value: arg}), or i.confirm() when arg is Unset
ConfirmCall(i, arg, ch) == ConfirmCallNext(i, arg, FALSE, ch)

\* input.confirm(args)
VConfirm ==
  \E i \in DOMAIN inp, arg \in Args, ch \in DomainChoices : ConfirmCall(i, arg, ch)

\* The call i.input(value)
InputCall(i, value, ch) ==
  /\ counters.calls < MaxCalls
  /\ ~MicrotaskReady
  /\ VCommit(InputInput(World, i, value, ch), TRUE,
             [ghost EXCEPT !.soleCascade = FALSE,
                           !.blocked = @ \/ form.task.isPending])

\* input.input(value)
VInput ==
  \E i \in DOMAIN inp, value \in Values, ch \in DomainChoices :
    InputCall(i, value, ch)

\* The call i.reset({value: arg}), or i.reset() when arg is Unset
ResetCall(i, arg) ==
  /\ counters.calls < MaxCalls
  /\ ~MicrotaskReady
  /\ VCommit(InputReset(World, i, arg), TRUE,
             [ghost EXCEPT !.soleCascade = FALSE])

\* input.reset(args)
VReset == \E i \in DOMAIN inp, arg \in Args : ResetCall(i, arg)

\* validator.validate(), called directly
VValidate ==
  \E v \in DOMAIN vld, ch \in DomainChoices :
    /\ counters.calls < MaxCalls
    /\ ~MicrotaskReady
    /\ VCommit(ValidatorValidate(World, v, ch), TRUE,
               [ghost EXCEPT !.soleCascade = FALSE])

\* the observable read by the validator's `enabled` predicate changes
VSetEnabled ==
  \E v \in DOMAIN vld :
    /\ counters.calls < MaxCalls
    /\ ~MicrotaskReady
    /\ VCommit([World EXCEPT !.val[v].enabled = ~@], TRUE,
               [ghost EXCEPT !.soleCascade = FALSE])

\* the promise returned by a domain action fulfils
VFulfil ==
  \E v \in DOMAIN vld, i \in Instances, r \in DomainResults :
    /\ vld[v].task.inst[i].act = "pending"
    /\ ~MicrotaskReady
    /\ VCommit([World EXCEPT !.val[v].task = ActionFulfil(@, i, r)], FALSE, ghost)

\* the promise returned by a domain action rejects
VReject ==
  \E v \in DOMAIN vld, i \in Instances :
    /\ vld[v].task.inst[i].act = "pending"
    /\ ~MicrotaskReady
    /\ VCommit([World EXCEPT !.val[v].task = ActionReject(@, i)], FALSE, ghost)

\* the race continuation of a domain task runs, and with it the code waiting
\* for the task's promise in Validator.validate
VContinue ==
  \E v \in DOMAIN vld, i \in Instances :
    /\ CanContinue(vld[v].task, i)
    /\ VCommit([World EXCEPT !.val[v] = ValidatorResume(@, i)], FALSE, ghost)

\* Promise.all of an Input.validate() call fulfils: its loop goes on
VSweepResume ==
  \E p \in sweeps, ch \in DomainChoices :
    /\ SweepSettled(World, p)
    /\ ~SweepRejected(World, p)
    /\ VCommit(SweepResume(World, p, ch), FALSE,
               [ghost EXCEPT !.supersededReturned = @ \/ Superseded(p)])

\* Promise.all of an Input.validate() call rejects: the call ends
VSweepFail ==
  \E p \in sweeps :
    /\ SweepRejected(World, p)
    /\ Commit([World EXCEPT !.sw = @ \ {p}], FALSE,
              [ghost EXCEPT !.supersededFailed = @ \/ Superseded(p)])
    /\ nexts' = {c \in nexts :
                   ~\E k \in c.waits : k.input = p.input /\ k.id = p.id}
    /\ UNCHANGED <<form, focus>>

NextV ==
  \/ VConfirm \/ VInput \/ VReset \/ VValidate \/ VSetEnabled
  \/ VFulfil \/ VReject \/ VContinue
  \/ VSweepResume \/ VSweepFail

SpecV == Init /\ [][NextV]_vars

\* The input C with its validators P and Q, under the same steps
SpecSolo == SoloInit /\ [][NextV]_vars

\* ------------------------------------------------------------------ Form steps
\* form.submit(): Task.invoke calls the guard, which runs up to its first
\* await
FSubmit ==
  \E ch \in DomainChoices :
    /\ counters.calls < MaxCalls
    /\ ~MicrotaskReady
    /\ form.task.n < MaxInvokes
    /\ LET t == TaskInvoke(form.task, "null", "async", Unset, 0)
       IN /\ form' = [form EXCEPT !.task = t,
                                  !.guard[t.n].phase = "tick"]
          /\ Commit(GuardStart(World, ch), TRUE,
                    [ghost EXCEPT !.soleCascade = FALSE])
          /\ UNCHANGED <<focus, nexts>>

\* the guard after `await Promise.resolve()`: it returns the immediate errors,
\* or validates the pending validators and awaits them
FTick ==
  \E i \in Instances, ch \in DomainChoices :
    /\ form.guard[i].phase = "tick"
    /\ IF FindErrors(World)
         THEN /\ form' = [form EXCEPT
                            !.task = ActionFulfil(@, i, "validation-error"),
                            !.guard[i].phase = "done",
                            !.guard[i].errors = InputErrors(World)]
              /\ focus' = FocusErrors(World)
              /\ Commit(World, FALSE, ghost)
         ELSE LET r == ValidateAll(
                         [w |-> World, wait |-> NewGuard.wait],
                         GetValidators(InputsPendingValidation(World)), ch)
              IN /\ form' = [form EXCEPT
                               !.guard[i] = [NewGuard EXCEPT
                                               !.phase = "validating",
                                               !.wait = r.wait]]
                 /\ focus' = focus
                 /\ Commit(r.w, FALSE, ghost)
    /\ UNCHANGED nexts

\* the guard after `await Promise.all(...)`: it returns the late errors, or
\* reports progress and calls the submit action
FValidated ==
  \E i \in Instances :
    /\ form.guard[i].phase = "validating"
    /\ GuardSettled(i)
    /\ ~GuardRejected(i)
    /\ form' = IF FindErrors(World)
                 THEN [form EXCEPT
                         !.task = ActionFulfil(@, i, "validation-error"),
                         !.guard[i] = [NewGuard EXCEPT
                                         !.phase = "done",
                                         !.errors = InputErrors(World),
                                         !.late = TRUE]]
                 ELSE [form EXCEPT
                         !.task = ReportProgress(@, i, "action"),
                         !.guard[i] = [NewGuard EXCEPT
                                         !.phase = "action",
                                         !.calls = form.guard[i].calls + 1,
                                         !.arg = FormValue(World)]]
    /\ focus' = IF FindErrors(World) THEN FocusErrors(World)
                ELSE BlurFormInput(World, focus)
    /\ Commit(World, FALSE, ghost)
    /\ UNCHANGED nexts

\* a validate() awaited by the guard rejects: the guard's promise rejects
FGuardFail ==
  \E i \in Instances :
    /\ form.guard[i].phase = "validating"
    /\ GuardRejected(i)
    /\ form' = [form EXCEPT !.task = ActionReject(@, i),
                            !.guard[i] = [NewGuard EXCEPT !.phase = "done"]]
    /\ Commit(World, FALSE, ghost)
    /\ UNCHANGED <<focus, nexts>>

\* the submit action's result arrives: the guard returns the submit outcome
FActionDone ==
  \E i \in Instances, r \in ActionResults :
    /\ form.guard[i].phase = "action"
    /\ ~MicrotaskReady
    /\ form' = [form EXCEPT !.task = ActionFulfil(@, i, "submit"),
                            !.guard[i].phase = "done",
                            !.guard[i].result = r]
    /\ Commit(World, FALSE, ghost)
    /\ UNCHANGED <<focus, nexts>>

\* the race continuation of the form's task runs
FContinue ==
  \E i \in Instances :
    /\ CanContinue(form.task, i)
    /\ form' = [form EXCEPT !.task = TaskContinue(@, i)]
    /\ Commit(World, FALSE, ghost)
    /\ UNCHANGED <<focus, nexts>>

\* the user moves the focus: focusState.focus() of an input, or blur() of the
\* focused one
FFocus ==
  \E i \in DOMAIN inp \cup {NoInput} :
    /\ ~MicrotaskReady
    /\ i # focus
    /\ focus' = i
    /\ Commit(World, FALSE, ghost)
    /\ UNCHANGED <<form, nexts>>

\* i.confirm({value: arg, next: true})
FConfirmNext ==
  \E i \in DOMAIN inp, arg \in Args, ch \in DomainChoices :
    ConfirmCallNext(i, arg, TRUE, ch)

\* The code of the confirm call c after `await Promise.all(...)`, ch being
\* what a domain action does if the form's guard calls one.
ConfirmResume(c, ch) ==
  /\ c \in nexts
  /\ NextReady(c)
  /\ nexts' = nexts \ {c}
  /\ LET a == Advance(World, c.input, c.confirmId, focus)
         g == [ghost EXCEPT
                 !.staleNext = @ \/ (/\ c.confirmId # counters.cc
                                      /\ focus = c.input
                                      /\ IsValidated(World, c.input))]
     IN IF a = "submit"
          THEN /\ form.task.n < MaxInvokes
               /\ LET t == TaskInvoke(form.task, "null", "async", Unset, 0)
                  IN form' = [form EXCEPT !.task = t,
                                          !.guard[t.n].phase = "tick"]
               /\ focus' = focus
               /\ Commit(GuardStart(World, ch), FALSE,
                         [g EXCEPT !.soleCascade = FALSE])
          ELSE /\ form' = form
               /\ focus' = IF a = "focus" THEN NextInput(World) ELSE focus
               /\ Commit(World, FALSE, g)

FConfirmResume ==
  \E c \in nexts, ch \in DomainChoices : ConfirmResume(c, ch)

NextF ==
  \/ NextV
  \/ FSubmit \/ FTick \/ FValidated \/ FGuardFail \/ FActionDone \/ FContinue

SpecF == Init /\ [][NextF]_vars

\* A form over the input C, with a user who confirms the input, with or
\* without next: true, moves the focus and submits
NextN ==
  \/ VConfirm \/ FConfirmNext \/ FFocus \/ FSubmit
  \/ VFulfil \/ VReject \/ VContinue \/ VSweepResume \/ VSweepFail
  \/ FTick \/ FValidated \/ FGuardFail \/ FActionDone \/ FContinue
  \/ FConfirmResume

SpecN == SoloInit /\ [][NextN]_vars

\* ------------------------------------------------------------------ Task properties

\* Shape of the task state.
TaskTypeOK ==
  /\ task.isPending \in BOOLEAN
  /\ task.cur \in 0..MaxInvokes
  /\ task.n \in 0..MaxInvokes
  /\ task.isPending => task.cur # NoInstance

\* C1: an invocation that a later invoke superseded while it was pending never
\* becomes the source of the task's result, whenever its promise fulfils.
C1_NoStaleResult ==
  \A a \in Instances : task.inst[a].via = "invoke" => task.result.by # a

\* C1 witness: a was superseded while pending, its promise fulfilled later, its
\* continuation ran, and the result is that of a later invocation.
C1_Witness ==
  \E a \in Instances :
    /\ task.inst[a].via = "invoke"
    /\ task.inst[a].act = "fulfilled"
    /\ task.inst[a].contDone
    /\ task.result.by > a

\* Position of the start of invocation j's action in the log L.
ActionPos(L, j) == CHOOSE p \in 1..Len(L) : L[p] = ActionEvent(j)

\* No cancel handler of an invocation runs after the action of a later
\* invocation has started.
NoOldHandlerAfterNewAction ==
  \A p, q \in 1..Len(task.log) :
    (/\ task.log[p].e = "action"
     /\ task.log[q].e = "handler"
     /\ task.log[q].i < task.log[p].i) => q < p

\* An invoke step that finds a live pending invocation runs every handler that
\* invocation has registered before the new action starts.
SupersedeRunsHandlersFirst ==
  (/\ task'.n = task.n + 1
   /\ task.isPending
   /\ ~task.inst[task.cur].isCanceled) =>
     LET i  == task.cur
         L  == task'.log
         pa == ActionPos(L, task'.n)
     IN /\ \A h \in 1..task.inst[i].handlers :
             \E p \in 1..(pa - 1) : L[p] = HandlerEvent(i, h)
        /\ \A p \in (pa + 1)..Len(L) : L[p].e # "handler"

\* C6: when invoke supersedes a pending invocation, all cancel handlers of the
\* earlier invocation have run before the new action starts, and none of them
\* runs afterwards.
C6_CancelBeforeAction ==
  []NoOldHandlerAfterNewAction /\ [][SupersedeRunsHandlersFirst]_vars

\* C6 witness: a superseded invocation ran two handlers and the next action
\* started.
C6_Witness ==
  \E a \in Instances :
    /\ task.inst[a].via = "invoke"
    /\ task.inst[a].ran = MaxHandlers
    /\ task.n > a

\* C7: after an invoke whose action returned a plain value the task is not
\* pending, until the next invoke.
C7_SyncNeverPending ==
  (task.n > 0 /\ task.inst[task.n].act = "sync") => ~task.isPending

\* C7 witness: the synchronous invoke superseded a pending asynchronous
\* invocation whose promise fulfilled later and whose continuation has run.
C7_Witness ==
  /\ task.n > 1
  /\ task.inst[task.n].act = "sync"
  /\ task.inst[task.n - 1].via = "invoke"
  /\ task.inst[task.n - 1].act = "fulfilled"
  /\ task.inst[task.n - 1].contDone

\* An invocation canceled by cancel() never becomes the source of the result.
CanceledNeverApplies ==
  \A a \in Instances : task.inst[a].via = "cancel" => task.result.by # a

\* Effect of one cancel() call.
CancelEffect ==
  (task' = TaskCancel(task)) =>
    /\ task'.result = task.result
    /\ (task.isPending /\ ~task.inst[task.cur].isCanceled) =>
         /\ task'.log = task.log \o Dispose(task.cur, task.inst[task.cur].handlers)
         /\ task'.inst[task.cur].ran = task.inst[task.cur].handlers
    /\ ~task.isPending => task' = task

\* C8: cancel() on a pending task runs the registered cancel handlers inside
\* the call and never changes result, then or later; on a task that is not
\* pending it changes nothing.
C8_CancelFrame == []CanceledNeverApplies /\ [][CancelEffect]_vars

\* C8 witness: an invocation with two handlers was canceled by cancel(), its
\* handlers ran, its promise fulfilled afterwards and its continuation ran.
C8_Witness ==
  \E a \in Instances :
    /\ task.inst[a].via = "cancel"
    /\ task.inst[a].ran = MaxHandlers
    /\ task.inst[a].act = "fulfilled"
    /\ task.inst[a].contDone

\* C9 as stated: once the current invocation is canceled the task is not
\* pending.
C9_Original ==
  (task.cur # NoInstance /\ task.inst[task.cur].isCanceled) => ~task.isPending

\* A pending flag is cleared only by a race continuation or by an invoke.
PendingClearedBy ==
  (task.isPending /\ ~task'.isPending) =>
    \/ \E i \in Instances : ~task.inst[i].contDone /\ task'.inst[i].contDone
    \/ task'.n = task.n + 1

\* cancel() on a pending task marks the invocation canceled and leaves
\* isPending true.
CancelKeepsPending ==
  (task' = TaskCancel(task) /\ task.isPending) =>
    /\ task'.isPending
    /\ task'.inst[task.cur].isCanceled

\* C9 (amended): cancel() marks the pending invocation canceled at once, but
\* isPending is still true when cancel() returns; it turns false only when the
\* canceled invocation's race continuation runs or a later invoke settles.
C9_CancelThenContinuation == [][CancelKeepsPending /\ PendingClearedBy]_vars

\* C9 witness: the continuation of an invocation canceled by cancel() has run
\* and cleared the pending flag.
C9_Witness ==
  \E a \in Instances :
    /\ task.cur = a
    /\ task.inst[a].via = "cancel"
    /\ task.inst[a].contDone
    /\ ~task.isPending

\* ------------------------------------------------------------------ Validator properties

C3_Original ==
  \A v \in Validators :
    \A a \in ghost.stale[v] : vld[v].task.result.by # a

\* C4: after a single A.confirm() that changed the values of A and B, and no
\* other call, V.validate() and V's domain action have run at most once.
C4_Original ==
  ghost.soleCascade =>
    \A v \in Validators : vld[v].nValidate <= 1 /\ vld[v].task.n <= 1

\* The validator's parse result becomes an error, or the validator becomes
\* disabled, in this step.
BecomesUnfit(v) ==
  \/ ~ParseIsError(World, v) /\ ParseIsError(World, v)'
  \/ IsEnabled(World, v) /\ ~IsEnabled(World, v)'

\* C10: a step in which the parse result of a validator with a pending domain
\* task becomes an error, or in which that validator becomes disabled, leaves
\* the pending invocation canceled with its cancel handlers run.
C10_Original ==
  [][\A v \in Validators :
       (IsValidationPending(World, v) /\ BecomesUnfit(v)) =>
         LET x == vld'[v].task.inst[vld[v].task.cur]
         IN x.isCanceled /\ x.ran = x.handlers]_vars

\* ------------------------------------------------------------------ Form properties

\* C2: in a step in which a guard of Form.submit() calls the form's submit
\* action, every enabled validator of the form's inputs is conclusively valid.
C2_Original ==
  [][\A i \in Instances :
       (form.guard[i].phase # "action" /\ form'.guard[i].phase = "action")
         => AllConclusivelyValid(World)]_vars

\* ------------------------------------------------------------------ Conclusiveness

\* C11: a conclusively valid validator has had an invocation of its domain
\* action settle at least once.
C11_Original ==
  \A v \in Validators :
    IsConclusivelyValid(World, v) =>
      \E i \in Instances : vld[v].task.inst[i].isSettled

\* ------------------------------------------------------------------ Input properties

\* The state of the inputs that their getters show.
Shown(x) == [value |-> x.value, inputValue |-> InputValue(x),
             isConfirmed |-> x.isConfirmed]

\* The value a confirm({value: arg}) on input i resolves to.
Resolved(i, arg) == IF arg = Unset THEN InputValue(inp[i]) ELSE arg

\* C12: a confirm() of an already confirmed input with a value equal to its
\* confirmed value changes no input (so the cascade has confirmed nothing) and
\* calls validate() on no validator.
C12_Original ==
  [][\A i \in Inputs, arg \in Args, ch \in DomainChoices :
       (/\ inp[i].isConfirmed
        /\ DeepEqual(Resolved(i, arg), inp[i].value)
        /\ ConfirmCall(i, arg, ch))
       => /\ \A k \in Inputs : Shown(inp'[k]) = Shown(inp[k])
          /\ \A v \in Validators : vld'[v].nValidate = vld[v].nValidate]_vars

\* The form is submitting from the return of submit() until the current
\* invocation's continuation has run.
SubmittingUntilSettled ==
  (form.task.cur # NoInstance /\ ~form.task.inst[form.task.cur].contDone)
    => form.task.isPending

\* A confirm() or input() on an input of the submitting form changes no input,
\* no validator, no counter and starts no Input.validate().
BlockedWhileSubmitting ==
  \A i \in Inputs, arg \in Args, value \in Values, ch \in DomainChoices :
    (/\ form.task.isPending
     /\ \E k \in 1..Len(FormInputs(World)) : FormInputs(World)[k] = i
     /\ \/ ConfirmCall(i, arg, ch)
        \/ InputCall(i, value, ch))
    => /\ UNCHANGED <<inp, vld, sweeps>>
       /\ counters'.cc = counters.cc

\* C13: while the form owning an input is submitting, confirm() and input() on
\* that input change nothing and start no validation; the form is submitting
\* from the moment submit() returned until its submission settles.
C13_FrozenWhileSubmitting ==
  []SubmittingUntilSettled /\ [][BlockedWhileSubmitting]_vars

\* confirm() or input() has been called while the form was in the validation
\* phase of a submission.
C13_Witness ==
  /\ ghost.blocked
  /\ form.task.isPending
  /\ \E i \in Instances : form.guard[i].phase = "validating"

\* C14: after an accepted input(v) the input's inputValue is v, and after a
\* confirm() or a reset() the input's inputValue equals its confirmed value.
C14_Original ==
  [][\A i \in Inputs, arg \in Args, value \in Values, ch \in DomainChoices :
       /\ (InputCall(i, value, ch) /\ ~form.task.isPending)
            => InputValue(inp'[i]) = value
       /\ (ResetCall(i, arg) \/ (ConfirmCall(i, arg, ch) /\ ~form.task.isPending))
            => InputValue(inp'[i]) = inp'[i].value]_vars

\* C15: after an accepted confirm() the input's value is the normalizer's
\* image of the explicit argument, or of the staged inputValue when none is
\* given, isConfirmed is true and inputValue equals value.
C15_ConfirmCommits ==
  [][\A i \in Inputs, arg \in Args, ch \in DomainChoices :
       (ConfirmCall(i, arg, ch) /\ ~form.task.isPending)
         => /\ inp'[i].value = Normalizer(Resolved(i, arg))
            /\ inp'[i].isConfirmed
            /\ InputValue(inp'[i]) = inp'[i].value]_vars

\* An input that no cascade confirms has been confirmed and holds a value that
\* only the normalizer produces.
C15_Witness ==
  \E i \in Inputs :
    /\ \A k \in Inputs : CascadeTarget(k) # i
    /\ inp[i].value = "y"
    /\ inp[i].isConfirmed
    /\ inp[i].inputValue = Unset
    /\ inp[i].confirmId > 0

\* A confirm() of an input with a cascade: every domain action it invokes is
\* given the values all inputs hold when the call returns, and an
\* Input.validate() has started in this call for exactly the inputs whose
\* value the call changed.
CascadeBatch ==
  \A i \in Inputs, arg \in Args, ch \in DomainChoices :
    (/\ CascadeTarget(i) # NoInput
     /\ ~form.task.isPending
     /\ ConfirmCall(i, arg, ch))
    => /\ \A v \in Validators :
            vld'[v].task.n > vld[v].task.n
              => vld'[v].task.lastArg = GroupValue(World, v)'
       /\ \A k \in Inputs :
            IF inp'[k].value # inp[k].value
              THEN /\ inp'[k].validationId = inp[k].validationId + 1
                   /\ \E p \in sweeps' :
                        p.input = k /\ p.id = inp'[k].validationId
              ELSE inp'[k].validationId = inp[k].validationId

\* C16: in a confirm cascade no validator is validated before all cascaded
\* inputs hold their new values, and the root call starts the validation of
\* every input marked for validation in one batch.
C16_CascadeBatch == [][CascadeBatch]_vars

\* A single cascading confirm has changed both inputs, started both
\* Input.validate() calls and invoked the domain action with the new values.
C16_Witness ==
  /\ ghost.soleCascade
  /\ Cardinality(sweeps) = 2
  /\ \E v \in Validators :
       /\ vld[v].task.n > 0
       /\ vld[v].task.lastArg = GroupValue(World, v)

\* ------------------------------------------------------------------ Auto-advance

\* What the counter gives: a confirm({next: true}) whose validation completes
\* after a newer confirm() call has taken a confirmId (a call that was not
\* refused because a form was submitting) performs no auto-advance.
StaleByCounterNoAdvance ==
  [][\A c \in nexts, ch \in DomainChoices :
       (ConfirmResume(c, ch) /\ c.confirmId # counters.cc)
         => (focus' = focus /\ form'.task.n = form.task.n)]_vars

\* The continuation of a confirm({next: true}) has run after a newer confirm,
\* its input being validated and focused: only the counter stopped it.
StaleByCounterStopped == ghost.staleNext

\* C17: a confirm({next: true}) whose validation completes after any newer
\* confirm() call has started performs no auto-advance: its continuation
\* neither moves the focus nor submits the form.
C17_Original ==
  [][\A c \in nexts, ch \in DomainChoices :
       (ConfirmResume(c, ch) /\ c.newer)
         => (focus' = focus /\ form'.task.n = form.task.n)]_vars

\* ------------------------------------------------------------------ Input.validate properties

\* The Input.validate() call p is about to return from its loop without having
\* been superseded.
SweepReturns(p) ==
  /\ p.id = inp[p.input].validationId
  /\ SweepSettled(World, p)
  /\ ~SweepRejected(World, p)
  /\ \A v \in DOMAIN vld : ~p.res[v]

\* An Input.validate() call that returns has validated every validator its
\* filter selects that was disabled when it started and is enabled now: the
\* call adds a validator to its set only as it calls validate() on it.
LateValidated ==
  \A p \in sweeps :
    SweepReturns(p) =>
      \A v \in p.off :
        IsCandidate(p.filter, v) /\ IsEnabled(World, v) => v \in p.set

\* The calls of Input.validate that can make a turn of their loop in this
\* state: the pending ones and the ones a call would start.
SweepsHere ==
  sweeps \cup
  {NewSweep(i, filter, inp[i].validationId) :
     i \in DOMAIN inp, filter \in {"confirm", "input", "none"}}

\* No callback of an Input.validate() call calls validate() on a validator
\* that is disabled when the callback runs.
ValidatesEnabledOnly ==
  \A p \in SweepsHere, ch \in DomainChoices :
    LET vs == InputValidators(p.input) IN
    \A k \in 1..Len(vs) :
      LET before == SweepMap([w |-> World, p |-> p], SubSeq(vs, 1, k - 1), ch)
          after  == SweepCallback(before, vs[k], ch)
      IN after.w.val[vs[k]].nValidate # before.w.val[vs[k]].nValidate
           => IsEnabled(before.w, vs[k])

\* C18: within one Input.validate() call that is not superseded, a validator
\* that is disabled at the start and enabled once the validators enabled at
\* the start have completed is validated by that call, and the call never
\* calls validate() on a validator while it is disabled.
C18_LateValidatorsSwept == LateValidated /\ ValidatesEnabledOnly

\* A call of Input.validate is about to return having validated Q, which was
\* disabled when the call started, after P, which was enabled.
C18_Witness ==
  \E p \in sweeps :
    /\ SweepReturns(p)
    /\ "Q" \in p.off /\ "P" \notin p.off
    /\ p.set = {"P", "Q"}
    /\ vld["P"].nValidate = 1 /\ vld["Q"].nValidate = 1
    /\ vld["P"].task.inst[1].act = "fulfilled"

\* The step in which a superseded Input.validate() call ends starts no
\* validation and no further turn of the call's loop.
SupersededStartsNothing ==
  [][\A p \in sweeps :
       (Superseded(p) /\ p \notin sweeps')
         => /\ \A v \in DOMAIN vld :
                 /\ vld'[v].nValidate = vld[v].nValidate
                 /\ vld'[v].task.n = vld[v].task.n
            /\ sweeps' = sweeps \ {p}]_vars

\* The promise of a superseded call rejects only in a step in which a
\* validator promise the call was already awaiting has rejected.
SupersededFailsByAwaited ==
  [][(ghost'.supersededFailed /\ ~ghost.supersededFailed)
       => \E p \in sweeps :
            /\ Superseded(p)
            /\ SweepRejected(World, p)
            /\ p \notin sweeps']_vars

\* C19 (as stated): after Input.validate() is called again on the same input
\* the earlier call starts no further validation and its promise resolves
\* without raising an error.
C19_Original == SupersededStartsNothing /\ [](~ghost.supersededFailed)

\* C19 (amended): the earlier call starts no further validation; its promise
\* fulfils once what it was awaiting has fulfilled, and rejects only when a
\* validator promise it was already awaiting rejects.
C19_SupersededEnds == SupersededStartsNothing /\ SupersededFailsByAwaited

\* An Input.validate() call has returned after a newer call on its input
\* began, and another such call has rejected.
C19_Witness == ghost.supersededReturned /\ ghost.supersededFailed

\* ------------------------------------------------------------------ Submit blocked by errors

\* The form's inputs that have a validator with an error, in the form's order
InputsWithErrors ==
  SelectSeq(FormInputs(World), LAMBDA k :
    \E v \in Validators :
      /\ \E j \in 1..Len(FlattedInputs(v)) : FlattedInputs(v)[j] = k
      /\ (ParseIsError(World, v) \/ DomainIsError(World, v)))

\* The guard of submission i leaves its validation phase in this step
\* (Promise.all has settled), some input of the form having an error.
ValidationEndsWithErrors(i) ==
  /\ form.guard[i].phase = "validating"
  /\ form'.guard[i].phase # "validating"
  /\ InputsWithErrors # <<>>

\* If an input of the form has a validator error after the guard's
\* validation, the guard does not throw but returns the outcome
\* "validation-error" with exactly the inputs that have errors, the first of
\* them is focused and the submit action is not invoked.
BlockedByErrors ==
  [][\A i \in Instances :
       ValidationEndsWithErrors(i)
         => /\ form'.task.inst[i].act = "fulfilled"
            /\ form'.task.inst[i].val = "validation-error"
            /\ form'.guard[i].errors = InputsWithErrors
            /\ focus' = Head(InputsWithErrors)
            /\ form'.guard[i].phase = "done"]_vars

\* Once the submission that returned "validation-error" has settled,
\* isSubmitting is false and the outcome is the task's result.
BlockedSettles ==
  [][\A i \in Instances :
       (/\ form.task.inst[i].val = "validation-error"
        /\ ~form.task.inst[i].contDone
        /\ form'.task.inst[i].contDone
        /\ form.task.cur = i
        /\ ~form.task.inst[i].isCanceled)
         => /\ ~form'.task.isPending
            /\ form'.task.result = [by |-> i, val |-> "validation-error"]]_vars

ConfirmedValues ==
  [k \in 1..Len(FormInputs(World)) |-> inp[FormInputs(World)[k]].value]

\* The guard of submission i leaves its validation phase in this step, its
\* validations fulfilled and no input of the form having an error.
ValidationEndsClean(i) ==
  /\ form.guard[i].phase = "validating"
  /\ form'.guard[i].phase # "validating"
  /\ ~GuardRejected(i)
  /\ InputsWithErrors = <<>>

\* A guard that finds no errors calls the submit action, for the first time,
\* with the confirmed values of the form's inputs.
ActionCalledWithValue ==
  [][\A i \in Instances :
       ValidationEndsClean(i)
         => /\ form'.guard[i].phase = "action"
            /\ form.guard[i].calls = 0 /\ form'.guard[i].calls = 1
            /\ form'.guard[i].arg = ConfirmedValues]_vars

\* No guard calls the submit action twice, and a guard has called it exactly
\* when it is waiting for it or has returned the outcome "submit".
ActionCalledOnce ==
  \A i \in Instances :
    /\ form.guard[i].calls <= 1
    /\ form.guard[i].calls = 1
         <=> \/ form.guard[i].phase = "action"
             \/ form.task.inst[i].val = "submit"

\* When a submission whose action returned settles, the task's result is the
\* outcome "submit" of that submission, which carries what the action
\* returned.
SubmitSettles ==
  [][\A i \in Instances :
       (/\ form.task.inst[i].val = "submit"
        /\ ~form.task.inst[i].contDone
        /\ form'.task.inst[i].contDone
        /\ form.task.cur = i
        /\ ~form.task.inst[i].isCanceled)
         => /\ form'.task.result = [by |-> i, val |-> "submit"]
            /\ form'.guard[i].result \in ActionResults
            /\ form'.guard[i].result = form.guard[i].result]_vars

\* C21: when the submit guard finds no validation errors, the submit action is
\* invoked exactly once, with the form's value built from the inputs'
\* confirmed values and never from a staged inputValue, and the submission's
\* result is the outcome "submit" carrying the action's return value.
C21_SubmitWithConfirmedValue ==
  ActionCalledWithValue /\ []ActionCalledOnce /\ SubmitSettles

\* A submission has settled with the outcome "submit" after its action was
\* called with the confirmed values while an input showed a different, staged
\* value.
C21_Witness ==
  \E i \in Instances :
    /\ form.task.result = [by |-> i, val |-> "submit"]
    /\ form.guard[i].calls = 1
    /\ form.guard[i].result \in ActionResults
    /\ \E k \in 1..Len(FormInputs(World)) :
         LET x == inp[FormInputs(World)[k]]
         IN /\ x.inputValue # Unset
            /\ x.inputValue # x.value
            /\ form.guard[i].arg[k] = x.value

\* ------------------------------------------------------------------ Validator.validate properties

\* validate() is called on validator v in this step
ValidateCalled(v) == vld'[v].nValidate > vld[v].nValidate

\* validate() is called on validator v in a step that leaves every input as
\* it is, while the value of v does not parse.
ValidateCalledOnParseError(v) ==
  /\ ValidateCalled(v)
  /\ inp' = inp
  /\ ParseIsError(World, v)

ParseOptions == {"none", "required", "convert"}

\* The error a parse rule reports for the empty value.
ParseError == "required"

\* The domain value a converting rule makes of an input value.
ToDomain(value) ==
  CASE value = "x" -> "dx"
    [] value = "Y" -> "dY"
    [] OTHER -> value

\* The values that have the shape of a domain value of a converting rule.
DomainShaped == {"dx", "dY"}

\* ValidatorOptions.format where it is configured: it turns a domain value of
\* a converting rule back into the input value, and lower-cases a domain
\* value that is an input value.
Format(domainValue) ==
  CASE domainValue = "dx" -> "x"
    [] domainValue = "dY" -> "Y"
    [] domainValue = "Y" -> "y"
    [] OTHER -> domainValue

\* The options of G: the parse rule, the correction the rule suggests with
\* its error (Unset: none), and whether a formatter is configured.
ValidatorOptions ==
  [parse : ParseOptions, parseCorrection : {Unset, "x"}, format : BOOLEAN]

\* What the rule returns: a falsy value, {domain} or {error, correction}.
ParseRule(opts, value) ==
  IF opts.parse = "none" THEN [k |-> "falsy"]
  ELSE IF value = "empty"
    THEN [k |-> "failure", error |-> ParseError,
          correction |-> opts.parseCorrection]
  ELSE IF opts.parse = "convert"
    THEN [k |-> "domain", domain |-> ToDomain(value)]
  ELSE [k |-> "falsy"]

\* Validator.parse
Parse(opts, value) ==
  LET result == ParseRule(opts, value) IN
  IF result.k = "falsy"
    THEN [isError |-> FALSE, isParsed |-> FALSE, domain |-> value,
          error |-> Unset, correction |-> Unset]
  ELSE IF result.k = "domain"
    THEN [isError |-> FALSE, isParsed |-> TRUE, domain |-> result.domain,
          error |-> Unset, correction |-> Unset]
  ELSE [isError |-> TRUE, isParsed |-> FALSE, domain |-> Unset,
        error |-> result.error, correction |-> result.correction]

\* Task.result of the domain task: null (isNull), or what the last domain
\* action to settle returned: a falsy value or an object, with or without an
\* error and with or without a correction (an absent key is Unset).
NullResult == [isNull |-> TRUE, error |-> Unset, correction |-> Unset]
DomainError == "taken"
\* The correction a domain action suggests: a domain value.
DomainCorrection(opts) == IF opts.parse = "convert" THEN "dY" ELSE "Y"
TaskResults(opts) ==
  {NullResult} \cup
  [isNull : {FALSE}, error : {Unset, DomainError},
   correction : {Unset, DomainCorrection(opts)}]

\* The state of G that its getters read: its options, whether its `enabled`
\* predicate holds, and the result of its domain task.  Its value is the value
\* of D.
GetterInputs == {"D"}
GetterValidators == {"G"}
GetterStates ==
  UNION {[opts : {o}, enabled : BOOLEAN, result : TaskResults(o)] :
           o \in ValidatorOptions}

\* Validator.value of G: the group is the input D itself.
ValueOf(x, i) == i["D"].value

\* Validator.parseResult (validateOnInput is not set)
ParseResult(x, i) == Parse(x.opts, ValueOf(x, i))

\* Validator.domainResult
DomainResult(x) ==
  LET result == x.result IN
  IF result.isNull THEN [isError |-> FALSE, error |-> Unset,
                         correction |-> Unset]
  ELSE IF result.error # Unset
    THEN [isError |-> TRUE, error |-> result.error,
          correction |-> result.correction]
  ELSE [isError |-> FALSE, error |-> Unset, correction |-> Unset]

\* null, as Validator.error returns it
NoError == [errorType |-> "null", error |-> Unset, correction |-> Unset]

\* An error getter that looks at the domain result first
ErrorDomainFirst(x, i) ==
  IF DomainResult(x).isError
    THEN [errorType |-> "domain", error |-> DomainResult(x).error,
          correction |-> DomainResult(x).correction]
  ELSE IF ParseResult(x, i).isError
    THEN [errorType |-> "parse", error |-> ParseResult(x, i).error,
          correction |-> ParseResult(x, i).correction]
  ELSE NoError

\* Validator.error
Error(x, i) ==
  IF ParseResult(x, i).isError
    THEN [errorType |-> "parse", error |-> ParseResult(x, i).error,
          correction |-> ParseResult(x, i).correction]
  ELSE IF DomainResult(x).isError
    THEN [errorType |-> "domain", error |-> DomainResult(x).error,
          correction |-> DomainResult(x).correction]
  ELSE NoError

\* What reading Validator.correction does: it returns a value, returns
\* undefined, or throws.
Returned(value) ==
  IF value = Unset THEN [k |-> "void", value |-> Unset]
  ELSE [k |-> "value", value |-> value]
Thrown == [k |-> "throw", value |-> Unset]

\* A correction getter that passes the correction through when there is no
\* formatter
CorrectionPassThrough(x, i) ==
  IF ~x.enabled THEN Returned(Unset)
  ELSE IF ParseResult(x, i).isError
    THEN Returned(ParseResult(x, i).correction)
  ELSE
    LET correction == IF DomainResult(x).isError
                        THEN DomainResult(x).correction ELSE Unset
    IN IF correction = Unset THEN Returned(Unset)
       ELSE IF x.opts.format THEN Returned(Format(correction))
       ELSE Returned(correction)

\* Validator.correction
Correction(x, i) ==
  IF ~x.enabled THEN Returned(Unset)
  ELSE IF ParseResult(x, i).isError
    THEN Returned(ParseResult(x, i).correction)
  ELSE
    LET correction == IF DomainResult(x).isError
                        THEN DomainResult(x).correction ELSE Unset
    IN IF correction = Unset THEN Returned(Unset)
       ELSE IF ~x.opts.format /\ ParseResult(x, i).isParsed THEN Thrown
       ELSE IF x.opts.format THEN Returned(Format(correction))
       ELSE Returned(correction)

\* Nothing has been read yet
NotRead == [k |-> "unread"]

\* G and D after construction and any history: every configuration, value,
\* enabled state and task result
GetterInit ==
  /\ task = NewTask
  /\ \E value \in Values :
       inp = [i \in GetterInputs |-> [NewInput EXCEPT !.value = value]]
  /\ \E x \in GetterStates : vld = [v \in GetterValidators |-> x]
  /\ sweeps = {}
  /\ counters = [cc |-> 0, calls |-> 0]
  /\ form = NewForm
  /\ focus = NoInput
  /\ nexts = {}
  /\ ghost = [error |-> NotRead, correction |-> NotRead]

\* G.error is read
ReadError ==
  /\ ghost.error = NotRead
  /\ ghost' = [ghost EXCEPT !.error = Error(vld["G"], inp)]
  /\ UNCHANGED <<task, inp, vld, sweeps, counters, form, focus, nexts>>

\* G.correction is read
ReadCorrection ==
  /\ ghost.correction = NotRead
  /\ ghost' = [ghost EXCEPT !.correction = Correction(vld["G"], inp)]
  /\ UNCHANGED <<task, inp, vld, sweeps, counters, form, focus, nexts>>

NextG == ReadError \/ ReadCorrection

SpecG == GetterInit /\ [][NextG]_vars

\* ------------------------------------------------------------------ Validator.error, Validator.correction properties

\* The rule of G rejects the value of D
ParsingFails ==
  vld["G"].opts.parse # "none" /\ inp["D"].value = "empty"

\* The domain task of G holds the result of a failed domain check
StoredDomainError ==
  ~vld["G"].result.isNull /\ vld["G"].result.error # Unset

\* C23: Validator.error reports the parse error whenever parsing of the
\* current value fails, whatever domain error is stored; it reports the stored
\* domain error only when parsing succeeds; it is null when there is neither.
C23_ParseErrorFirst ==
  ghost.error # NotRead =>
    LET e == ghost.error IN
    IF ParsingFails
      THEN /\ e.errorType = "parse"
           /\ e.error = ParseError
           /\ e.correction = vld["G"].opts.parseCorrection
    ELSE IF StoredDomainError
      THEN /\ e.errorType = "domain"
           /\ e.error = vld["G"].result.error
           /\ e.correction = vld["G"].result.correction
    ELSE e = NoError

\* The error of a validator whose value does not parse and that holds a domain
\* error has been read.
C23_Witness ==
  /\ ghost.error # NotRead
  /\ ParsingFails
  /\ StoredDomainError
  /\ ghost.error.errorType = "parse"

\* The domain correction G holds, turned into an input value by the formatter
FormattedCorrection ==
  IF vld["G"].opts.parse = "convert" THEN "Y" ELSE "y"

\* The rule of G converted the value of D (isParsed)
ParserConverted ==
  vld["G"].opts.parse = "convert" /\ inp["D"].value # "empty"

\* What reading the correction of the domain result gives: nothing when the
\* failure has no correction, the formatted correction with a formatter, the
\* correction as it is without a formatter when the rule did not convert; it
\* throws without a formatter when the rule converted.
ReadsDomainCorrection(c) ==
  IF vld["G"].result.correction = Unset THEN c = Returned(Unset)
  ELSE IF vld["G"].opts.format THEN c = Returned(FormattedCorrection)
  ELSE IF ParserConverted THEN c = Thrown
  ELSE c = Returned(vld["G"].result.correction)

\* C24 as stated: the correction is the parse correction whenever parsing
\* fails, otherwise the formatted domain correction if the domain check failed
\* and the validator is enabled, otherwise absent.
C24_Original ==
  ghost.correction # NotRead =>
    LET c == ghost.correction IN
    IF ParsingFails THEN c = Returned(vld["G"].opts.parseCorrection)
    ELSE IF StoredDomainError /\ vld["G"].enabled
      THEN ReadsDomainCorrection(c)
    ELSE c = Returned(Unset)

\* The rule converted the value, no formatter is configured and the domain
\* result carries a correction
UnformattableCorrection ==
  /\ ParserConverted
  /\ ~vld["G"].opts.format
  /\ StoredDomainError
  /\ vld["G"].result.correction # Unset

\* No value of the shape of a domain value has been returned as a correction
NoDomainShapeReturned ==
  ghost.correction # NotRead =>
    (ghost.correction.k = "value" => ghost.correction.value \notin DomainShaped)

\* C25 as stated: reading the correction of a validator whose rule converted
\* the value, without a formatter and with a domain correction, throws.
C25_Original ==
  /\ (ghost.correction # NotRead /\ UnformattableCorrection)
       => ghost.correction = Thrown
  /\ NoDomainShapeReturned

\* C25: reading the correction of an enabled validator whose rule converted
\* the value, without a formatter and with a domain correction, throws; on a
\* disabled one it returns nothing; a correction of the shape of a domain
\* value is never returned.
C25_ThrowsWithoutFormatter ==
  /\ (ghost.correction # NotRead /\ UnformattableCorrection)
       => ghost.correction = IF vld["G"].enabled THEN Thrown
                             ELSE Returned(Unset)
  /\ NoDomainShapeReturned

\* The correction of an enabled validator with a converting rule, no formatter
\* and a domain correction has been read
C25_Witness ==
  /\ ghost.correction = Thrown
  /\ UnformattableCorrection
  /\ vld["G"].enabled
  /\ vld["G"].result.correction \in DomainShaped

\* ------------------------------------------------------------------ Validator.nestedValidators
\* Graphs of validators 1..MaxNestedValidators over inputs 1..MaxNestedInputs.
MaxNestedValidators == 3
MaxNestedInputs == 2
NestedValidatorIds == 1..MaxNestedValidators
NestedInputIds == 1..MaxNestedInputs

\* Validator.flattedInputs of a validator constructed over the inputs S
FlattedInputsOf(S) ==
  SelectSeq([k \in NestedInputIds |-> k], LAMBDA k : k \in S)

\* Input.validators: the validators registered with input i, in the order of
\* their construction
ValidatorsOf(val, i) ==
  SelectSeq([k \in NestedValidatorIds |-> k],
            LAMBDA w : \E k \in 1..Len(val[w].flattedInputs) :
                         val[w].flattedInputs[k] = i)

\* The call nestedValidators of validator v: an empty result, an empty buffer
\* and the first call of collectNestedValidators.  A frame of the stack is a
\* call of collectNestedValidators with the positions i and j of its loops
\* (j = 0: the inner loop has not started).
NewFrame(v) == [validator |-> v, i |-> 1, j |-> 0]
NewCollect(v) ==
  [pc |-> "run", self |-> v, stack |-> <<NewFrame(v)>>, buffer |-> {},
   result |-> {}, returned |-> <<>>]

\* [...result], the elements in the order of their insertion: the model keeps
\* the set, and returns it as a sequence without repetition
SpreadOf(S) == SelectSeq([k \in NestedValidatorIds |-> k], LAMBDA k : k \in S)

\* One step of a collectNestedValidators that does not recurse
CollectStepShallow(c, val, i) ==
  LET top  == c.stack[Len(c.stack)]
      rest == SubSeq(c.stack, 1, Len(c.stack) - 1)
      fi   == val[top.validator].flattedInputs
  IN IF top.i > Len(fi)
       THEN IF rest = <<>>
              THEN [c EXCEPT !.pc = "done", !.stack = <<>>,
                             !.result = c.result \ {c.self},
                             !.returned = SpreadOf(c.result \ {c.self})]
              ELSE [c EXCEPT !.stack = rest]
     ELSE LET input      == fi[top.i]
              validators == i[input].validators
          IN IF top.j = 0
               THEN IF input \in c.buffer
                      THEN [c EXCEPT !.stack[Len(c.stack)].i = top.i + 1]
                      ELSE [c EXCEPT !.stack[Len(c.stack)].j = 1]
             ELSE IF top.j > Len(validators)
               THEN [c EXCEPT !.stack[Len(c.stack)] =
                                [top EXCEPT !.i = top.i + 1, !.j = 0]]
             ELSE IF validators[top.j] \in c.result
               THEN [c EXCEPT !.stack[Len(c.stack)].j = top.j + 1]
             ELSE [c EXCEPT
                     !.result = c.result \cup {validators[top.j]},
                     !.stack[Len(c.stack)].j = top.j + 1]

\* One step of nestedValidators: an iteration of a loop of the innermost call
\* of collectNestedValidators, a recursive call, a return, or, after the
\* outermost call returned, result.delete(this) and the spread of the result.
CollectStep(c, val, i) ==
  LET top  == c.stack[Len(c.stack)]
      rest == SubSeq(c.stack, 1, Len(c.stack) - 1)
      fi   == val[top.validator].flattedInputs
  IN IF top.i > Len(fi)
       THEN IF rest = <<>>
              THEN [c EXCEPT !.pc = "done", !.stack = <<>>,
                             !.result = c.result \ {c.self},
                             !.returned = SpreadOf(c.result \ {c.self})]
              ELSE [c EXCEPT !.stack = rest]
     ELSE LET input      == fi[top.i]
              validators == i[input].validators
          IN IF top.j = 0
               THEN IF input \in c.buffer
                      THEN [c EXCEPT !.stack[Len(c.stack)].i = top.i + 1]
                      ELSE [c EXCEPT !.stack[Len(c.stack)].j = 1]
             ELSE IF top.j > Len(validators)
               THEN [c EXCEPT !.stack[Len(c.stack)] =
                                [top EXCEPT !.i = top.i + 1, !.j = 0]]
             ELSE IF validators[top.j] \in c.result
               THEN [c EXCEPT !.stack[Len(c.stack)].j = top.j + 1]
             ELSE [c EXCEPT
                     !.result = c.result \cup {validators[top.j]},
                     !.stack = Append(
                       [c.stack EXCEPT ![Len(c.stack)].j = top.j + 1],
                       NewFrame(validators[top.j]))]

\* Validators constructed over any sets of inputs, every input holding the
\* validators registered with it, and nestedValidators read on one of them
NestedInit ==
  /\ task = NewTask
  /\ \E S \in [NestedValidatorIds -> SUBSET NestedInputIds] :
       /\ vld = [v \in NestedValidatorIds |->
                   [flattedInputs |-> FlattedInputsOf(S[v])]]
       /\ inp = [i \in NestedInputIds |->
                   [validators |-> ValidatorsOf(vld, i)]]
  /\ sweeps = {}
  /\ counters = [cc |-> 0, calls |-> 0]
  /\ form = NewForm
  /\ focus = NoInput
  /\ nexts = {}
  /\ \E v \in NestedValidatorIds : ghost = NewCollect(v)

\* the next step of the running nestedValidators
NestedStep ==
  /\ ghost.pc = "run"
  /\ ghost' = CollectStep(ghost, vld, inp)
  /\ UNCHANGED <<task, inp, vld, sweeps, counters, form, focus, nexts>>

NextNested == NestedStep

\* nestedValidators is a synchronous computation: it runs on
SpecNested == NestedInit /\ [][NextNested]_vars /\ WF_vars(NestedStep)

\* ------------------------------------------------------------------ nestedValidators properties

\* Two validators share an input
Share(v, w) ==
  \E k \in 1..Len(vld[v].flattedInputs), l \in 1..Len(vld[w].flattedInputs) :
    vld[v].flattedInputs[k] = vld[w].flattedInputs[l]

\* The validators reached from the set R by at most n steps from a validator
\* to an input of it and on to a validator of that input
RECURSIVE ReachedFrom(_, _)
ReachedFrom(R, n) ==
  IF n = 0 THEN R
  ELSE ReachedFrom(R \cup {w \in NestedValidatorIds :
                             \E u \in R : Share(u, w)}, n - 1)

\* The validators reachable from v, v left out
Reachable(v) == ReachedFrom({v}, MaxNestedValidators) \ {v}

\* The finished call returned exactly the reachable validators, once each
ReturnsReachable ==
  ghost.pc = "done" =>
    /\ {ghost.returned[k] : k \in 1..Len(ghost.returned)} = Reachable(ghost.self)
    /\ \A k, l \in 1..Len(ghost.returned) :
         ghost.returned[k] = ghost.returned[l] => k = l
    /\ \A k \in 1..Len(ghost.returned) : ghost.returned[k] # ghost.self

\* The recursion is never deeper than one call per validator and the first
BoundedDepth == Len(ghost.stack) <= MaxNestedValidators + 1

Live(i) ==
  /\ task.inst[i].act # "none"
  /\ ~task.inst[i].isCanceled
  /\ ~task.inst[i].isSettled

\* At most one invocation is live, and it is the one started last, which is
\* the task's current one
OneLive ==
  \A i \in Instances : Live(i) => (i = task.n /\ i = task.cur)

\* Only an invocation that starts in this step becomes the current one
NeverCurrentAgain ==
  \A i \in Instances :
    (task'.cur = i /\ task.cur # i) => (task.inst[i].act = "none" /\ i = task'.n)

\* An invocation that is canceled, or that is no longer the current one, does
\* not settle the task: it does not become settled and does not give the task
\* its result
CanceledNeverSettles ==
  \A i \in Instances :
    (task.inst[i].act # "none" /\ (task.inst[i].isCanceled \/ task.cur # i))
      => /\ task'.inst[i].isSettled = task.inst[i].isSettled
         /\ task'.inst[i].isCanceled = task.inst[i].isCanceled
         /\ (task'.result # task.result => task'.result.by # i)

\* C27: at every moment a task has at most one live invocation, one that is
\* neither canceled nor settled, and it is the most recently started one; an
\* invocation that was superseded or canceled never becomes current again and
\* never settles the task.
C27_OneLiveInvocation ==
  []OneLive /\ [][NeverCurrentAgain /\ CanceledNeverSettles]_vars

\* A second invocation is live after it superseded the first, whose promise
\* fulfilled afterwards and whose continuation has run.
C27_Witness ==
  /\ task.n = 2
  /\ Live(2)
  /\ task.inst[1].isCanceled
  /\ task.inst[1].act = "fulfilled"
  /\ task.inst[1].contDone

\* ------------------------------------------------------------------ Task.reinvoke
\* Arguments a task is invoked with.
TaskArgs == {"a1", "a2"}

\* What a call of invoke or reinvoke does for its caller: it returns a promise
\* or throws.
ThrownError == [k |-> "throw", i |-> NoInstance]

\* A reinvoke that never throws
TaskReinvokeNeverThrows(t, required, kind, r, nh) ==
  IF t.lastArg # Unset
    THEN LET t1 == TaskInvoke(t, t.lastArg, kind, r, nh)
         IN [task |-> t1, ret |-> t1.promise]
    ELSE [task |-> t, ret |-> ResolvedPromise]

\* Task.reinvoke(required); kind, r and nh say what the action does if it is
\* called.
TaskReinvoke(t, required, kind, r, nh) ==
  IF t.lastArg # Unset
    THEN LET t1 == TaskInvoke(t, t.lastArg, kind, r, nh)
         IN [task |-> t1, ret |-> t1.promise]
  ELSE IF required THEN [task |-> t, ret |-> ThrownError]
  ELSE [task |-> t, ret |-> ResolvedPromise]

\* The last call of invoke or reinvoke made on the task, kept for the
\* properties: seq counts the calls.
NoCall == [seq |-> 0, op |-> "none", required |-> FALSE, ret |-> NullPromise]

ReinvokeInit ==
  /\ task = NewTask
  /\ inp = [i \in Inputs |-> NewInput]
  /\ vld = [v \in Validators |-> NewValidator]
  /\ sweeps = {}
  /\ counters = [cc |-> 0, calls |-> 0]
  /\ form = NewForm
  /\ focus = NoInput
  /\ nexts = {}
  /\ ghost = NoCall

\* task.invoke(args)
InvokeArgs ==
  /\ task.n < MaxInvokes
  /\ \E args \in TaskArgs, kind \in {"sync", "async"}, r \in ResultValues,
        nh \in 0..MaxHandlers :
       /\ task' = TaskInvoke(task, args, kind, r, nh)
       /\ ghost' = [seq |-> ghost.seq + 1, op |-> "invoke",
                    required |-> FALSE, ret |-> task'.promise]
  /\ UNCHANGED <<inp, vld, sweeps, counters, form, focus, nexts>>

\* task.reinvoke(required)
Reinvoke ==
  /\ task.n < MaxInvokes
  /\ ghost.seq < MaxInvokes + 1
  /\ \E required \in BOOLEAN, kind \in {"sync", "async"}, r \in ResultValues,
        nh \in 0..MaxHandlers :
       LET o == TaskReinvoke(task, required, kind, r, nh)
       IN /\ task' = o.task
          /\ ghost' = [seq |-> ghost.seq + 1, op |-> "reinvoke",
                       required |-> required, ret |-> o.ret]
  /\ UNCHANGED <<inp, vld, sweeps, counters, form, focus, nexts>>

NextReinvoke ==
  \/ InvokeArgs \/ Reinvoke
  \/ Cancel \/ Fulfil \/ Reject \/ Continue \/ OnCancel

SpecReinvoke == ReinvokeInit /\ [][NextReinvoke]_vars

\* ------------------------------------------------------------------ Task.reinvoke properties

\* reinvoke is called in this step
ReinvokeCalled == ghost'.seq = ghost.seq + 1 /\ ghost'.op = "reinvoke"

\* The effect of a call of reinvoke: after an earlier invoke it starts the
\* action once more, with the argument of that invoke, and returns the task's
\* promise; with no earlier invoke it throws when required is set, and
\* otherwise returns a resolved promise; in both cases of the latter nothing
\* of the task changes.
ReinvokeEffect ==
  ReinvokeCalled =>
    IF task.n > 0
      THEN /\ task'.n = task.n + 1
           /\ task'.inst[task'.n].act # "none"
           /\ task'.log[Len(task'.log)] = ActionEvent(task'.n)
           /\ task'.lastArg = task.lastArg
           /\ task.lastArg \in TaskArgs
           /\ ghost'.ret = task'.promise
           /\ ghost'.ret.k \in {"race", "resolved"}
    ELSE IF ghost'.required
      THEN ghost'.ret = ThrownError /\ task' = task
    ELSE ghost'.ret = ResolvedPromise /\ task' = task

TasksHere == [v \in DOMAIN vld |-> vld[v].task] @@ [F |-> form.task]
TasksNext == [v \in DOMAIN vld |-> vld'[v].task] @@ [F |-> form'.task]

\* The promise that invoke returned for invocation i of task t has rejected
InvokeRejected(t, i) == PromiseRejected(t, RacePromise(i))

\* C29 as stated: whenever the promise of a task's action has rejected, the
\* promise that invoke returned has rejected.
C29_Original ==
  \A k \in DOMAIN TasksHere : \A i \in Instances :
    TasksHere[k].inst[i].act = "rejected" => InvokeRejected(TasksHere[k], i)

\* In the step in which the promise of an action rejects, the promise that
\* invoke returned rejects if the invocation was not canceled before, and it
\* stays fulfilled with the cancellation if it was; the result of the task
\* stays as it is.
RejectionReachesInvoke ==
  \A k \in DOMAIN TasksHere : \A i \in Instances :
    (TasksHere[k].inst[i].act = "pending" /\ TasksNext[k].inst[i].act = "rejected")
      => /\ TasksNext[k].result = TasksHere[k].result
         /\ InvokeRejected(TasksNext[k], i) <=> ~TasksHere[k].inst[i].isCanceled
         /\ TasksHere[k].inst[i].isCanceled
              => TasksNext[k].inst[i].race = "killer"

\* An invocation whose action's promise rejected never gives the task its
\* result, its continuation does not run when its promise rejected, and the
\* rejection does not go away.
RejectionStays ==
  \A k \in DOMAIN TasksHere : \A i \in Instances :
    /\ TasksHere[k].inst[i].act = "rejected"
         => /\ TasksNext[k].inst[i].act = "rejected"
            /\ (TasksNext[k].result # TasksHere[k].result
                  => TasksNext[k].result.by # i)
    /\ InvokeRejected(TasksHere[k], i)
         => /\ InvokeRejected(TasksNext[k], i)
            /\ ~TasksNext[k].inst[i].contDone

\* An Input.validate() call that awaits a rejected promise of a validator ends
\* without validating anything more, and a submit guard that awaits one ends
\* with the rejection of the submit action's promise.
RejectionReachesCallers ==
  /\ \A p \in sweeps :
       (SweepRejected(World, p) /\ p \notin sweeps')
         => \A v \in DOMAIN vld : vld'[v].nValidate = vld[v].nValidate
  /\ \A i \in Instances :
       (/\ form.guard[i].phase = "validating"
        /\ GuardRejected(i)
        /\ form'.guard[i].phase # "validating")
         => /\ form'.task.inst[i].act = "rejected"
            /\ form'.guard[i].calls = 0
            /\ InvokeRejected(form'.task, i) <=> ~form.task.inst[i].isCanceled

\* C29: if the promise of a task's action rejects and the invocation has not
\* been canceled or superseded before, the promise returned by invoke rejects,
\* and so do the Input.validate and Form.submit calls that await it; if the
\* invocation was canceled before, the returned promise stays fulfilled; the
\* task's result is left unchanged in both cases.
C29_RejectionPropagates ==
  [][RejectionReachesInvoke /\ RejectionStays /\ RejectionReachesCallers]_vars

\* The domain action of a validator has rejected, the submit guard that was
\* awaiting it has rejected with it, and so has the promise of submit().
C29_Witness ==
  \E v \in DOMAIN vld, i, j \in Instances :
    /\ vld[v].task.inst[i].act = "rejected"
    /\ InvokeRejected(vld[v].task, i)
    /\ form.task.inst[j].act = "rejected"
    /\ InvokeRejected(form.task, j)
    /\ form.task.isPending

\* ------------------------------------------------------------------ createLookup
\* Two inputs, and two groups constructed over a function of observable
\* state: a Validator V and a Form F.
LookupInputs == {"A", "B"}
LookupGroups == {"V", "F"}
MaxStructure == 2

\* The back-reference sets a group keeps itself registered in: every group
\* is an InputGroup, whose constructor creates the lookup of `groups`; the
\* constructors of Validator and Form create one more.
LookupsOf(g) ==
  IF g = "V" THEN {"groups", "validators"} ELSE {"groups", "forms"}
LookupIds == {l \in LookupGroups \X {"groups", "validators", "forms"} :
                l[2] \in LookupsOf(l[1])}

\* The values of flattedInputs: arrays of inputs, repetitions included
Structures ==
  UNION {[1..n -> LookupInputs] : n \in 0..MaxStructure}

\* An input with its back-reference sets
NewLookupInput == [groups |-> {}, validators |-> {}, forms |-> {}]

\* The targets of a query result
TargetsOf(flattedInputs) ==
  {flattedInputs[k] : k \in 1..Len(flattedInputs)}

\* A reaction effect that registers the current targets and removes nothing
LookupEffectAddOnly(refs, lastTargets, src, rel, targets) ==
  LET currentTargets == TargetsOf(targets)
  IN [refs |-> [i \in DOMAIN refs |->
                  IF i \in currentTargets
                    THEN [refs[i] EXCEPT ![rel] = @ \cup {src}]
                    ELSE refs[i]],
      lastTargets |-> currentTargets]

\* The effect of the reaction of createLookup(src, query, set) on a query
\* result: src is added to the set of every target, and deleted from the set
\* of every target of the last run that is no longer one.
LookupEffect(refs, lastTargets, src, rel, targets) ==
  LET currentTargets == TargetsOf(targets)
  IN [refs |-> [i \in DOMAIN refs |->
                  IF i \in currentTargets
                    THEN [refs[i] EXCEPT ![rel] = @ \cup {src}]
                  ELSE IF i \in lastTargets
                    THEN [refs[i] EXCEPT ![rel] = @ \ {src}]
                  ELSE refs[i]],
      lastTargets |-> currentTargets]

\* The two lookups of a Validator or Form, created one after the other
RECURSIVE LookupEffects(_, _, _, _, _)
LookupEffects(refs, last, g, rels, targets) ==
  IF rels = {} THEN [refs |-> refs, last |-> last]
  ELSE LET rel == CHOOSE r \in rels : TRUE
           o   == LookupEffect(refs, last[<<g, rel>>], g, rel, targets)
       IN LookupEffects(o.refs, [last EXCEPT ![<<g, rel>>] = o.lastTargets],
                        g, rels \ {rel}, targets)

\* Before any group is constructed.  lastTargets and pending are the state of
\* the reactions: the targets of their last run, and the reactions whose query
\* changed and that have not run yet; removed keeps, for the properties, the
\* registrations that the last reaction to run has deleted.
LookupInit ==
  /\ task = NewTask
  /\ inp = [i \in LookupInputs |-> NewLookupInput]
  /\ vld = [g \in LookupGroups |-> [constructed |-> FALSE, flattedInputs |-> <<>>]]
  /\ sweeps = {}
  /\ counters = [cc |-> 0, calls |-> 0]
  /\ form = NewForm
  /\ focus = NoInput
  /\ nexts = {}
  /\ ghost = [lastTargets |-> [l \in LookupIds |-> {}], pending |-> {},
              removed |-> {}]

\* new InputGroup / Validator / Form over a structure: each lookup the
\* constructors create fires at once
Construct ==
  \E g \in LookupGroups, s \in Structures :
    /\ ~vld[g].constructed
    /\ vld' = [vld EXCEPT ![g] = [constructed |-> TRUE, flattedInputs |-> s]]
    /\ LET o == LookupEffects(inp, ghost.lastTargets, g, LookupsOf(g), s)
       IN /\ inp' = o.refs
          /\ ghost' = [ghost EXCEPT !.lastTargets = o.last, !.removed = {}]
    /\ UNCHANGED <<task, sweeps, counters, form, focus, nexts>>

\* the observable state the structure of a group is computed from changes,
\* inside an action: the reactions of the group's lookups are scheduled
SetStructure ==
  \E g \in LookupGroups, s \in Structures :
    /\ vld[g].constructed
    /\ s # vld[g].flattedInputs
    /\ vld' = [vld EXCEPT ![g].flattedInputs = s]
    /\ ghost' = [ghost EXCEPT
                   !.pending = @ \cup {l \in LookupIds : l[1] = g},
                   !.removed = {}]
    /\ UNCHANGED <<task, inp, sweeps, counters, form, focus, nexts>>

\* a scheduled reaction runs
RunLookup ==
  \E l \in ghost.pending :
    LET o == LookupEffect(inp, ghost.lastTargets[l], l[1], l[2],
                          vld[l[1]].flattedInputs)
    IN /\ inp' = o.refs
       /\ ghost' = [lastTargets |-> [ghost.lastTargets EXCEPT ![l] = o.lastTargets],
                    pending |-> ghost.pending \ {l},
                    removed |->
                      {<<l, i>> : i \in {i \in LookupInputs :
                                           /\ l[1] \in inp[i][l[2]]
                                           /\ l[1] \notin o.refs[i][l[2]]}}]
       /\ UNCHANGED <<task, vld, sweeps, counters, form, focus, nexts>>

NextLookup == Construct \/ SetStructure \/ RunLookup

SpecLookup == LookupInit /\ [][NextLookup]_vars

\* ------------------------------------------------------------------ createLookup properties

\* C30: once every change of a group's structure has been processed, the
\* back-reference set of an input holds the group exactly when the input is
\* among the group's flattedInputs; a set the group has no lookup for never
\* holds it.
C30_BackReferences ==
  \A g \in LookupGroups, rel \in {"groups", "validators", "forms"},
     i \in LookupInputs :
    IF rel \notin LookupsOf(g) \/ ~vld[g].constructed
      THEN g \notin inp[i][rel]
    ELSE <<g, rel>> \notin ghost.pending
           => (g \in inp[i][rel]
                 <=> \E k \in 1..Len(vld[g].flattedInputs) :
                       vld[g].flattedInputs[k] = i)

\* The structure of the validator changed from one holding A to one holding B
\* only; the change has just been processed, A has lost the validator and B
\* has it.
C30_Witness ==
  /\ ghost.pending = {}
  /\ <<<<"V", "validators">>, "A">> \in ghost.removed
  /\ vld["V"].flattedInputs = <<"B">>
  /\ "V" \notin inp["A"].validators
  /\ "V" \in inp["B"].validators
  /\ "V" \in inp["B"].groups

\* ------------------------------------------------------------------ C31
\* TaskOptions.initialProgress, as given to the constructor of the task.  The
\* constructor hands the options to State, which keeps them as devOptions;
\* invoke assigns `void 0` to _progress and reads no option.
InitialProgress == "p0"

\* An invocation starts and is pending
InvocationStarts == task'.n # task.n /\ task'.isPending

\* C31 as stated: when an invocation of a task configured with initialProgress
\* starts, the progress of the task is initialProgress, and it keeps that
\* value, while the invocation is pending, until the action reports a progress.
C31_Original ==
  [][/\ InvocationStarts => task'.progress = InitialProgress
     /\ (/\ task.isPending /\ task'.isPending /\ task'.n = task.n
         /\ task.progress = InitialProgress
         /\ task'.progress # task.progress)
        => task'.progress \in ProgressValues]_vars

\* ------------------------------------------------------------------ C32
\* FocusState and HoverState of the three inputs of the hover demo
\* (AppState: name, email, flightNumber).  `focus` is the module-level box
\* currentFocus, inp[s].isHovered the field _isHovered of the input's
\* HoverState.
HoverInputs == {"name", "email", "flightNumber"}
\* `const inputs = [this.email, this.flightNumber, this.name]` in activeInput
ActiveOrder == <<"email", "flightNumber", "name">>

\* FocusState.isFocused
IsFocused(cur, s) == cur = s

\* FocusState.focus: currentFocus after s.focus()
Focus(cur, s) == s

\* A blur that clears the focus whoever holds it
BlurAlways(cur, s) == NoInput

\* FocusState.blur: currentFocus after s.blur()
Blur(cur, s) == IF IsFocused(cur, s) THEN NoInput ELSE cur

\* FocusState.reportFocus and reportBlur call focus and blur
ReportFocus(cur, s) == Focus(cur, s)
ReportBlur(cur, s) == Blur(cur, s)

\* HoverState.reportHover and reportUnhover on the hover state x
ReportHover(x) == [x EXCEPT !.isHovered = TRUE]
ReportUnhover(x) == [x EXCEPT !.isHovered = FALSE]

\* Array.prototype.find over ActiveOrder from position k
RECURSIVE Find(_, _)
Find(P, k) ==
  IF k > Len(ActiveOrder) THEN NoInput
  ELSE IF ActiveOrder[k] \in P THEN ActiveOrder[k]
  ELSE Find(P, k + 1)

\* AppState.activeInput
ActiveInput(cur, hov) ==
  LET focused == Find({s \in HoverInputs : IsFocused(cur, s)}, 1)
  IN IF focused # NoInput
       THEN focused
       ELSE Find({s \in HoverInputs : hov[s].isHovered}, 1)

FocusOps == {"focus", "reportFocus"}
BlurOps == {"blur", "reportBlur"}

\* The state after `new AppState()`; ghost is the last call made
FocusInit ==
  /\ task = NewTask
  /\ inp = [s \in HoverInputs |-> [isHovered |-> FALSE]]
  /\ vld = <<>>
  /\ sweeps = {}
  /\ counters = [cc |-> 0, calls |-> 0]
  /\ form = NewForm
  /\ focus = NoInput
  /\ nexts = {}
  /\ ghost = [op |-> "new", s |-> NoInput]

\* s.focusState.focus() or s.focusState.reportFocus()
FocusCall ==
  \E s \in HoverInputs, op \in FocusOps :
    /\ focus' = IF op = "focus" THEN Focus(focus, s) ELSE ReportFocus(focus, s)
    /\ ghost' = [op |-> op, s |-> s]
    /\ UNCHANGED <<task, inp, vld, sweeps, counters, form, nexts>>

\* s.focusState.blur() or s.focusState.reportBlur()
BlurCall ==
  \E s \in HoverInputs, op \in BlurOps :
    /\ focus' = IF op = "blur" THEN Blur(focus, s) ELSE ReportBlur(focus, s)
    /\ ghost' = [op |-> op, s |-> s]
    /\ UNCHANGED <<task, inp, vld, sweeps, counters, form, nexts>>

\* s.hoverState.reportHover()
HoverCall ==
  \E s \in HoverInputs :
    /\ inp' = [inp EXCEPT ![s] = ReportHover(inp[s])]
    /\ ghost' = [op |-> "reportHover", s |-> s]
    /\ UNCHANGED <<task, vld, sweeps, counters, form, focus, nexts>>

\* s.hoverState.reportUnhover()
UnhoverCall ==
  \E s \in HoverInputs :
    /\ inp' = [inp EXCEPT ![s] = ReportUnhover(inp[s])]
    /\ ghost' = [op |-> "reportUnhover", s |-> s]
    /\ UNCHANGED <<task, vld, sweeps, counters, form, focus, nexts>>

NextFocus == FocusCall \/ BlurCall \/ HoverCall \/ UnhoverCall

SpecFocus == FocusInit /\ [][NextFocus]_vars

\* At most one focus state is focused
OneFocused == Cardinality({s \in HoverInputs : IsFocused(focus, s)}) <= 1

\* The focused input is the active one whatever is hovered; without a focused
\* input the active one is a hovered input, if there is any
FocusedHasPriority ==
  /\ focus # NoInput => ActiveInput(focus, inp) = focus
  /\ focus = NoInput =>
       IF \E s \in HoverInputs : inp[s].isHovered
         THEN inp[ActiveInput(focus, inp)].isHovered
         ELSE ActiveInput(focus, inp) = NoInput

\* What one call on a focus state does: focus makes its state the only
\* focused one, blur of the focused state leaves none focused, blur of
\* another state changes nothing, and none of them touches a hover state
FocusCallEffect ==
  /\ ghost'.op \in FocusOps =>
       \A s \in HoverInputs : IsFocused(focus', s) <=> s = ghost'.s
  /\ (ghost'.op \in BlurOps /\ IsFocused(focus, ghost'.s)) => focus' = NoInput
  /\ (ghost'.op \in BlurOps /\ ~IsFocused(focus, ghost'.s)) => focus' = focus
  /\ ghost'.op \in FocusOps \cup BlurOps => inp' = inp

\* C32: at most one FocusState is focused at any time; focus / reportFocus
\* make their state the only focused one; blur / reportBlur of a state that is
\* not focused leave the focus unchanged; focus changes leave every hover
\* state as it is; the focused input is the active input, before any hovered
\* one, until it is blurred.
C32_SingleFocus ==
  [](OneFocused /\ FocusedHasPriority) /\ [][FocusCallEffect]_vars

\* reportBlur on email, which is hovered, while name is focused: name is
\* still focused and active
C32_Witness ==
  /\ ghost.op = "reportBlur" /\ ghost.s = "email"
  /\ inp["email"].isHovered
  /\ IsFocused(focus, "name")
  /\ ActiveInput(focus, inp) = "name"

\* ------------------------------------------------------------------ C33
\* The while loop of Input.validate on its own: one input C with the
\* validators P and Q (in the order of their construction), one call of
\* C.validate(), no other call.  A validator is kept as the fields the loop
\* and the `enabled` predicates read: hasEver (_hasEverValidated), isPending
\* and isError (the task's isPending, and domainResult.isError of its
\* result), and act, the state of the invocation of its task: "none",
\* "pending" (the action's promise is pending), "canceled" (canceled by the
\* reaction, the race continuation has not run yet), "rejected".
LoopValidators == {"P", "Q"}
LoopOrder == <<"P", "Q">>
NewLoopValidator ==
  [hasEver |-> FALSE, isPending |-> FALSE, isError |-> FALSE, act |-> "none"]

\* Configurations of the `enabled` options of P and Q, each a pure function
\* of the validators' state:
\*   "always"  no predicate is given
\*   "after"   Q is enabled while P has validated, is not pending and has no
\*             error
\*   "until"   P is enabled while Q has never validated
\*   "agree"   P is enabled while P and Q both have, or both do not have, a
\*             domain error; Q is enabled while P is not pending
LoopConfigs == {"always", "after", "until", "agree"}

\* Validator.isEnabled under configuration cfg
LoopEnabled(cfg, val, v) ==
  CASE cfg = "always" -> TRUE
    [] cfg = "after" ->
         v = "Q" => /\ val["P"].hasEver /\ ~val["P"].isPending
                    /\ ~val["P"].isError
    [] cfg = "until" -> v = "P" => ~val["Q"].hasEver
    [] cfg = "agree" ->
         IF v = "P" THEN val["P"].isError = val["Q"].isError
                    ELSE ~val["P"].isPending

\* What the domain action does when it is called: it returns a result
\* (isError or not), or a promise
LoopChoices ==
  [kind : {"sync"}, r : BOOLEAN] \cup [kind : {"async"}, r : {FALSE}]

\* The reaction of Validator.validate: a pending validation whose validator
\* is no longer enabled is canceled (the values of the inputs parse and do
\* not change)
LoopReact(cfg, val) ==
  [v \in LoopValidators |->
     IF val[v].act = "pending" /\ ~LoopEnabled(cfg, val, v)
       THEN [val[v] EXCEPT !.act = "canceled"]
       ELSE val[v]]

\* Validator.validate() up to its await: Task.invoke settles the task at
\* once after a synchronous action and makes it pending otherwise
LoopValidate(x, c) ==
  IF c.kind = "sync"
    THEN [x EXCEPT !.hasEver = TRUE, !.isPending = FALSE, !.isError = c.r]
    ELSE [x EXCEPT !.hasEver = TRUE, !.isPending = TRUE, !.act = "pending"]

\* The callback of this.validators.map up to its first await, for a call
\* made without filter.  r holds the validators, the local Set, the
\* validators whose promise the callback awaits and the values the callbacks
\* return.  After the first await of Input.validate the calls of
\* Validator.validate are MobX actions of their own: their reactions run when
\* they return (batched = FALSE); the first turn runs inside the action
\* Input.validate.
LoopCallback(cfg, r, v, c, batched) ==
  IF r.val[v].isPending
    THEN [r EXCEPT !.wait = @ \cup {v}, !.res = @ \cup {v}]
  ELSE
    LET isEnabled == LoopEnabled(cfg, r.val, v)
        hasChanged == (v \in r.set) # isEnabled
    IN IF isEnabled
         THEN IF hasChanged
                THEN LET val1 == [r.val EXCEPT ![v] = LoopValidate(@, c[v])]
                     IN [r EXCEPT
                           !.val = IF batched THEN val1
                                              ELSE LoopReact(cfg, val1),
                           !.set = @ \cup {v},
                           !.wait = IF val1[v].isPending THEN @ \cup {v}
                                                         ELSE @,
                           !.res = @ \cup {v}]
                ELSE [r EXCEPT !.set = @ \cup {v}]
         ELSE [r EXCEPT !.set = @ \ {v},
                        !.res = IF hasChanged THEN @ \cup {v} ELSE @]

RECURSIVE LoopMap(_, _, _, _, _)
LoopMap(cfg, r, vs, c, batched) ==
  IF vs = <<>> THEN r
  ELSE LoopMap(cfg, LoopCallback(cfg, r, Head(vs), c, batched), Tail(vs), c,
               batched)

\* One turn of `while (true)` up to the await of Promise.all
LoopPass(cfg, r, c, batched) ==
  LET r1 == LoopMap(cfg, [r EXCEPT !.wait = {}, !.res = {}], LoopOrder, c,
                    batched)
  IN [r1 EXCEPT !.val = LoopReact(cfg, r1.val), !.pc = "await"]

\* The state after the construction of C, P and Q under any of the
\* configurations; C.validate() has not been called
LoopInit ==
  /\ task = NewTask
  /\ inp = [i \in SoloInputs |-> NewInput]
  /\ vld = [v \in LoopValidators |-> NewLoopValidator]
  /\ sweeps = [pc |-> "idle", set |-> {}, wait |-> {}, res |-> {}]
  /\ counters = [cc |-> 0, calls |-> 0]
  /\ form = NewForm
  /\ focus = NoInput
  /\ nexts = {}
  /\ \E cfg \in LoopConfigs : ghost = [cfg |-> cfg, turns |-> 0]

LoopUnchanged == UNCHANGED <<task, inp, counters, form, focus, nexts>>

\* The loop state of C.validate() after a turn
LoopCommit(r) ==
  /\ vld' = r.val
  /\ sweeps' = [pc |-> r.pc, set |-> r.set, wait |-> r.wait, res |-> r.res]

LoopState == [val |-> vld, pc |-> sweeps.pc, set |-> sweeps.set,
              wait |-> sweeps.wait, res |-> sweeps.res]

\* C.validate() is called: the first turn
LoopStart ==
  /\ sweeps.pc = "idle"
  /\ \E c \in [LoopValidators -> LoopChoices] :
       LoopCommit(LoopPass(ghost.cfg, LoopState, c, TRUE))
  /\ ghost' = [ghost EXCEPT !.turns = 1]
  /\ LoopUnchanged

\* The promise of a domain action fulfils with a result, and the race
\* continuation settles the task
LoopFulfil ==
  \E v \in LoopValidators, r \in BOOLEAN :
    /\ vld[v].act = "pending"
    /\ vld' = LoopReact(ghost.cfg,
                [vld EXCEPT ![v] = [@ EXCEPT !.act = "none",
                                             !.isPending = FALSE,
                                             !.isError = r]])
    /\ UNCHANGED <<sweeps, ghost>>
    /\ LoopUnchanged

\* The promise of a domain action rejects: the promise of the task and of
\* Validator.validate reject, and so does Promise.all in the loop
LoopReject ==
  \E v \in LoopValidators :
    /\ vld[v].act = "pending"
    /\ vld' = [vld EXCEPT ![v].act = "rejected"]
    /\ sweeps' = IF sweeps.pc = "await" /\ v \in sweeps.wait
                   THEN [sweeps EXCEPT !.pc = "failed"]
                   ELSE sweeps
    /\ UNCHANGED ghost
    /\ LoopUnchanged

\* The race continuation of a canceled validation runs
LoopCanceled ==
  \E v \in LoopValidators :
    /\ vld[v].act = "canceled"
    /\ vld' = LoopReact(ghost.cfg,
                [vld EXCEPT ![v] = [@ EXCEPT !.act = "none",
                                             !.isPending = FALSE]])
    /\ UNCHANGED <<sweeps, ghost>>
    /\ LoopUnchanged

\* Promise.all has fulfilled: `if (!result.some(Boolean)) break`, or the next
\* turn.  ghost.turns counts the turns up to 3.
LoopResume ==
  /\ sweeps.pc = "await"
  /\ \A v \in sweeps.wait : vld[v].act = "none"
  /\ IF sweeps.res = {}
       THEN /\ sweeps' = [sweeps EXCEPT !.pc = "done"]
            /\ UNCHANGED <<vld, ghost>>
       ELSE /\ \E c \in [LoopValidators -> LoopChoices] :
                 LoopCommit(LoopPass(ghost.cfg, LoopState, c, FALSE))
            /\ ghost' = [ghost EXCEPT
                           !.turns = IF @ < 3 THEN @ + 1 ELSE @]
  /\ LoopUnchanged

NextLoop ==
  LoopStart \/ LoopFulfil \/ LoopReject \/ LoopCanceled \/ LoopResume

\* Every domain action settles and every continuation runs
SpecLoop ==
  /\ LoopInit /\ [][NextLoop]_vars
  /\ WF_vars(LoopStart) /\ WF_vars(LoopFulfil \/ LoopReject)
  /\ WF_vars(LoopCanceled) /\ WF_vars(LoopResume)

\* C33 as stated: the call of Input.validate() terminates, its promise
\* settles, when every domain action it waits for settles and the enabled
\* predicates are pure functions of the state of the validators and inputs.
C33_Original == <>(sweeps.pc \in {"done", "failed"})

\* ------------------------------------------------------------------ C34
\* The guard of submission i is in its validation phase
InValidationPhase(i) == form.guard[i].phase \in {"tick", "validating"}

\* The guard of submission i calls the submit action in this step
CallsSubmitAction(i) == form'.guard[i].calls > form.guard[i].calls

\* C34 as stated: a submission that was canceled or superseded while its
\* guard was in the validation phase does not invoke the submit action
\* afterwards, and the guard of a submission invokes the submit action at
\* most once.
C34_Original ==
  /\ [][\A i \in Instances :
          (form.task.inst[i].isCanceled /\ InValidationPhase(i))
            => ~CallsSubmitAction(i)]_vars
  /\ [](\A i \in Instances : form.guard[i].calls <= 1)

\* form.submitTask.cancel()
FCancel ==
  /\ counters.calls < MaxCalls
  /\ ~MicrotaskReady
  /\ form.task.cur # NoInstance
  /\ form' = [form EXCEPT !.task = TaskCancel(@)]
  /\ Commit(World, TRUE, ghost)
  /\ UNCHANGED <<focus, nexts>>

\* The form with a user who also cancels the submit task
NextFC == NextF \/ FCancel

SpecFC == Init /\ [][NextFC]_vars

\* ------------------------------------------------------------------ C35
\* The error of validator v is a domain error that was computed for another
\* value than the confirmed values its inputs have now, and the check of the
\* current value is still pending
StaleDomainError(v) ==
  /\ ValidatorError(World, v) = "domain"
  /\ IsValidationPending(World, v)
  /\ vld[v].task.inst[vld[v].task.result.by].arg # GroupValue(World, v)

\* The guard of submission i returns the errors it finds right after
\* `await Promise.resolve()`
FailsImmediately(i) ==
  /\ form.guard[i].phase = "tick"
  /\ form'.guard[i].phase = "done"
  /\ form'.guard[i].errors # <<>>

\* C35 as stated: a submission fails at the immediate error check only for
\* an error that belongs to the current confirmed values; domain errors of an
\* earlier value whose re-validation is pending do not make it fail.
C35_Original ==
  [][\A i \in Instances :
       FailsImmediately(i) =>
         \E v \in DOMAIN vld :
           ValidatorError(World, v) # "none" /\ ~StaleDomainError(v)]_vars

\* ------------------------------------------------------------------ C36
\* Number of runs of handler h of invocation i so far
HandlerRuns(i, h) ==
  Cardinality({p \in 1..Len(task.log) : task.log[p] = HandlerEvent(i, h)})

\* C36 as stated: every cancel handler an invocation has registered has run
\* exactly once if the invocation is canceled or superseded, whether it was
\* registered before or after the cancellation, and has not run if the
\* invocation settled with a result.
C36_Original ==
  \A i \in Instances : \A h \in 1..task.inst[i].handlers :
    /\ task.inst[i].isCanceled => HandlerRuns(i, h) = 1
    /\ task.inst[i].isSettled => HandlerRuns(i, h) = 0

\* ------------------------------------------------------------------ C37
\* The standalone task where every continuation that can run does run; the
\* user's calls and the settlement of the actions are not forced.
SpecSettle == Init /\ [][Next]_vars /\ WF_vars(Continue)

\* C37 as stated: once the promise of the current action has settled, by
\* fulfilment or by rejection, isPending becomes false without a further
\* invoke() or cancel() (an invoke() that replaces the invocation ends the
\* obligation).
C37_Original ==
  \A i \in Instances :
    (task.cur = i /\ task.inst[i].act \in {"fulfilled", "rejected"})
      ~> (~task.isPending \/ task.cur # i)

\* ------------------------------------------------------------------ C38
\* The form over A and B, where the confirmCascade of A confirms B, with a
\* user who confirms with next: true and moves the focus, and domain actions
\* that do not reject
NextCascade ==
  \/ FConfirmNext \/ FFocus
  \/ VFulfil \/ VContinue \/ VSweepResume
  \/ FTick \/ FValidated \/ FActionDone \/ FContinue
  \/ FConfirmResume

SpecCascadeNext == Init /\ [][NextCascade]_vars

\* The continuation of the confirm({next: true}) call c runs in this step
ResumesNext(c) == c \in nexts /\ c \notin nexts'

\* The advance conditions of the call c other than the confirm counter: its
\* input belongs to the form, is validated and is focused
MayAdvance(c) ==
  /\ \E k \in 1..Len(FormInputs(World)) : FormInputs(World)[k] = c.input
  /\ IsValidated(World, c.input)
  /\ focus = c.input

\* The step focuses the form's next input, or submits when there is none
Advances ==
  IF NextInput(World) # NoInput
    THEN focus' = NextInput(World)
    ELSE form'.task.n = form.task.n + 1

\* C38 as stated: the continuation of a confirm({next: true}) on an input
\* whose confirmCascade confirms other inputs performs the auto-advance when
\* no confirm call from outside the cascade was made in the meantime and the
\* other advance conditions hold.
C38_Original ==
  [][\A c \in nexts :
       (/\ ResumesNext(c)
        /\ CascadeTarget(c.input) # NoInput
        /\ ~c.newer
        /\ MayAdvance(c)) => Advances]_vars

\* ------------------------------------------------------------------ C39
\* DataQuery: a fetch function behind a Task, the items of the last
\* successful fetch, the last attempted and the last successful query.
\* Debounced fetches are not modelled (a debounced fetch is a later
\* fetch(query) call).  An item is written as the query it was fetched for.
\* Number of invocations of the fetch task in one behaviour.
MaxFetches == 3
Queries == {"q1", "q2"}
FetchInstances == 1..MaxFetches

\* _lastSuccessfulResult: undefined, or the result with its isDone flag
NoFetchResult == [has |-> FALSE, isDone |-> FALSE]

\* The fields of a DataQuery after construction; `task` is _fetchTask
NewDataQuery ==
  [task |-> [NewTask EXCEPT !.inst = [i \in FetchInstances |-> NewInstance]],
   items |-> <<>>, lastAttemptedQuery |-> Unset,
   lastSuccessfulQuery |-> Unset, lastSuccessfulResult |-> NoFetchResult,
   isIncrementalFetch |-> FALSE]

\* The argument of the fetch task
FetchQuery(query, offset, append) ==
  [query |-> query, offset |-> offset, append |-> append]

\* DataQuery.fetch(query, {force}) without debounce
QueryFetch(d, query, force) ==
  IF DeepEqual(d.lastAttemptedQuery, query) /\ ~force THEN d
  ELSE [d EXCEPT !.lastAttemptedQuery = query,
                 !.isIncrementalFetch = FALSE,
                 !.task = TaskInvoke(d.task, FetchQuery(query, 0, FALSE),
                                     "async", Unset, 0)]

\* DataQuery.fetchMore()
QueryFetchMore(d) ==
  LET query == d.lastAttemptedQuery
      isSameAsSuccessfulQuery == DeepEqual(d.lastSuccessfulQuery, query)
  IN IF d.task.isPending THEN d
     ELSE IF d.lastSuccessfulResult.has /\ d.lastSuccessfulResult.isDone THEN d
     ELSE IF query = Unset THEN d
     ELSE [d EXCEPT !.isIncrementalFetch = TRUE,
                    !.task = TaskInvoke(d.task,
                               FetchQuery(query,
                                 IF isSameAsSuccessfulQuery THEN Len(d.items)
                                                            ELSE 0,
                                 TRUE),
                               "async", Unset, 0)]

\* DataQuery.cancel()
QueryCancel(d) == [d EXCEPT !.task = TaskCancel(d.task)]

\* DataQuery.clear()
QueryClear(d) ==
  [d EXCEPT !.task = TaskCancel(d.task),
            !.items = <<>>,
            !.lastAttemptedQuery = Unset,
            !.lastSuccessfulQuery = Unset,
            !.lastSuccessfulResult = NoFetchResult]

\* What options.fetch resolves to: a falsy value or an error ("false"), or
\* one item, with or without isDone
FetchOutcomes == {"false", "items", "done"}

\* The action of _fetchTask for invocation i after `await options.fetch(q)`
\* has given r: it stores a successful result unless the invocation is
\* canceled, and returns
FetchAction(d, i, r) ==
  LET q  == d.task.inst[i].arg
      d1 == IF r # "false" /\ ~d.task.inst[i].isCanceled
              THEN [d EXCEPT
                      !.items = IF q.append THEN d.items \o <<q.query>>
                                            ELSE <<q.query>>,
                      !.lastSuccessfulResult =
                          [has |-> TRUE, isDone |-> r = "done"],
                      !.lastSuccessfulQuery = q.query]
              ELSE d
  IN [d1 EXCEPT !.task = ActionFulfil(d.task, i, r)]

\* The state after `new DataQuery(options)`
QueryInit ==
  /\ task = NewTask
  /\ inp = <<>>
  /\ vld = <<>>
  /\ sweeps = {}
  /\ counters = [cc |-> 0, calls |-> 0]
  /\ form = NewDataQuery
  /\ focus = NoInput
  /\ nexts = {}
  /\ ghost = <<>>

QueryUnchanged ==
  UNCHANGED <<task, inp, vld, sweeps, counters, focus, nexts, ghost>>

\* query.fetch(q) or query.fetch(q, {force: true})
QFetch ==
  \E q \in Queries, force \in BOOLEAN :
    /\ form.task.n < MaxFetches
    /\ form' = QueryFetch(form, q, force)
    /\ QueryUnchanged

\* query.fetchMore()
QFetchMore ==
  /\ form.task.n < MaxFetches
  /\ form' = QueryFetchMore(form)
  /\ QueryUnchanged

\* query.cancel()
QCancel == form' = QueryCancel(form) /\ QueryUnchanged

\* query.clear()
QClear == form' = QueryClear(form) /\ QueryUnchanged

\* the promise of options.fetch of an invocation fulfils
QFetched ==
  \E i \in FetchInstances, r \in FetchOutcomes :
    /\ form.task.inst[i].act = "pending"
    /\ form' = FetchAction(form, i, r)
    /\ QueryUnchanged

\* the promise of options.fetch of an invocation rejects, and so does the
\* action of the fetch task
QFailed ==
  \E i \in FetchInstances :
    /\ form.task.inst[i].act = "pending"
    /\ form' = [form EXCEPT !.task = ActionReject(@, i)]
    /\ QueryUnchanged

\* the race continuation of the fetch task runs
QContinue ==
  \E i \in FetchInstances :
    /\ CanContinue(form.task, i)
    /\ form' = [form EXCEPT !.task = TaskContinue(@, i)]
    /\ QueryUnchanged

NextQuery ==
  QFetch \/ QFetchMore \/ QCancel \/ QClear \/ QFetched \/ QFailed
    \/ QContinue

SpecQuery == QueryInit /\ [][NextQuery]_vars

\* C39 as stated: DataQuery.items only ever holds items that were fetched
\* for activeQuery, the last successful query.
C39_Original ==
  \A k \in 1..Len(form.items) : form.items[k] = form.lastSuccessfulQuery
====
